---- MODULE Spec2Model ----
(***************************************************************************)
(* Session / token lifecycle of the Wealth-Arc backend.                    *)
(*                                                                         *)
(* The store is the two tables user_sessions_wa and refresh_tokens_wa      *)
(* (plus the legacy table refresh_tokens that some statements address).    *)
(* Every `await query(...)` of a handler is one step of the process that   *)
(* runs the handler: config/database.ts takes a pool client per statement  *)
(* and releases it right after, so BEGIN / COMMIT / ROLLBACK reserve no    *)
(* connection for the handler.  The statements of calls in flight          *)
(* interleave freely and each sees the writes of all earlier statements.   *)
(* In runs whose calls do not overlap no handler throws after a write that *)
(* changed a row, so there a ROLLBACK has nothing to undo; for overlapping *)
(* calls the model follows the interleavings in which every statement      *)
(* takes effect at once.  Every statement is taken to run as written: the  *)
(* table refresh_tokens exists (empty) and SET LOCAL accepts its parameter.*)
(***************************************************************************)
EXTENDS Integers, FiniteSets, Sequences, TLC

VARIABLES
    sessions,        \* rows of user_sessions_wa
    refreshTokens,   \* rows of refresh_tokens_wa
    legacyTokens,    \* rows of refresh_tokens (table without the _wa suffix)
    issued,          \* TokenResponse values handed to clients so far
    now,             \* NOW() / Date.now(), in abstract time units
    nextId,          \* source of fresh uuids
    pc,              \* per request process: the statement it is about to run
    loc,             \* per request process: arguments and local variables
    res              \* per request process: what its last finished call returned

vars == <<sessions, refreshTokens, legacyTokens, issued, now, nextId, pc, loc, res>>

store == <<sessions, refreshTokens, legacyTokens>>

----------------------------------------------------------------------------
\* Bounds of the model

NumUsers == 1
MaxIds == 5
MaxTime == 2
TimedIds == 4
SeqIds == 4
CleanIds == 4
CleanTime == 3
LogoutIds == 4
ListIds == 4
CrashIds == 4
HandlerIds == 3
OneWayIds == 3
TerminateIds == 3
HealthIds == 2
HealthRuns == 6
SwitchIds == 4
ReapIds == 2
NumOwners == 2
OwnerIds == 4

\* Program constants

MAX_SESSIONS_PER_USER == 3
TOKEN_EXPIRATION == 1
REFRESH_TOKEN_EXPIRATION == 2
JWT_SECRET == "secret"

Users == 1 .. NumUsers
Procs == {1, 2}

----------------------------------------------------------------------------
\* Identifiers

\* uuid_generate_v4() default of user_sessions_wa.id: the n-th fresh row id
SessionIdOf(n) == n

\* uuidv4() of createSession: the n-th fresh token id, never equal to a row id
uuidv4(n) == 100 + n

\* the value of a TIMESTAMP column that was never set, below every clock value
NULL == 0 - 1

----------------------------------------------------------------------------
\* JSON web tokens

NoTok == [userId |-> 0, tokenId |-> 0, exp |-> 0, sig |-> "none"]

\* Variant of jwt_sign that leaves the tokenId out of the payload
jwt_sign_noTokenId(userId, tokenId, secret, expiresIn, t) ==
    [userId |-> userId, tokenId |-> 0, exp |-> t + expiresIn, sig |-> secret]

\* jwt.sign({userId, tokenId}, secret, {expiresIn}) at time t
jwt_sign(userId, tokenId, secret, expiresIn, t) ==
    [userId |-> userId, tokenId |-> tokenId, exp |-> t + expiresIn, sig |-> secret]

\* jwt.verify(token, secret) at time t: the error it throws, or "ok"
jwt_verify(tok, secret, t) ==
    IF tok.sig # secret THEN "JsonWebTokenError"
    ELSE IF t >= tok.exp THEN "TokenExpiredError"
    ELSE "ok"

\* a token signed with another key
ForgedTokens == {[userId |-> u, tokenId |-> uuidv4(1), exp |-> MaxTime + 1, sig |-> "forged"] : u \in Users}

NoPair == [token |-> NoTok, refreshToken |-> NoTok, sessionId |-> 0]

\* every token string a client can present
Presentable == {r.token : r \in issued} \cup {r.refreshToken : r \in issued} \cup ForgedTokens

----------------------------------------------------------------------------
\* Queries

SessionsOf(u) == {s \in sessions : s.user_id = u}

\* SELECT COUNT(*) ... WHERE user_id = $1 AND NOT is_marked_for_deletion
getActiveSessions(u) == Cardinality({s \in SessionsOf(u) : ~s.is_marked_for_deletion})

\* SELECT id ... WHERE user_id = $1 ORDER BY last_active ASC LIMIT 1
\* (any row of the smallest last_active)
OldestSessions(u) ==
    {s \in SessionsOf(u) : \A o \in SessionsOf(u) : s.last_active <= o.last_active}

\* Variant of RefreshRowUsable that does not look at is_revoked
RefreshRowUsable_anyRevocation(tokenId) ==
    \E r \in refreshTokens : r.token_id = tokenId /\ r.expires_at > now

\* SELECT EXISTS (... WHERE token_id = $1 AND NOT is_revoked AND expires_at > NOW())
RefreshRowUsable(tokenId) ==
    \E r \in refreshTokens : r.token_id = tokenId /\ ~r.is_revoked /\ r.expires_at > now

\* TokenService.isRefreshTokenValid: any exception yields false
isRefreshTokenValid(tok) ==
    /\ jwt_verify(tok, JWT_SECRET, now) = "ok"
    /\ RefreshRowUsable(tok.tokenId)

----------------------------------------------------------------------------
\* Process locals and results

\* the transaction a pass runs in: conn tells which pool connection its statements
\* get, sessions and refreshTokens are the tables as they were at BEGIN
NoUndo == [conn |-> "none", sessions |-> {}, refreshTokens |-> {}]

NoLoc == [op |-> "none", user |-> 0, ret |-> "none", cnt |-> 0, tid |-> 0, sid |-> 0,
          tok |-> NoTok, snap |-> {}, n1 |-> 0, n2 |-> 0, cred |-> "none", undo |-> NoUndo]

NoRes == [op |-> "none", outcome |-> "none", message |-> "", status |-> 0,
          code |-> "", user |-> 0, sid |-> 0, sessions |-> {}, pair |-> NoPair,
          payload |-> NoTok, count |-> 0, snap |-> {}, cred |-> "none", rows |-> <<>>]

AllIdle == \A q \in Procs : pc[q] = "idle"

\* fresh ids are left for one more call that inserts a session
CanCreate == nextId + Cardinality({q \in Procs : pc[q] # "idle" /\ loc[q].ret # "none"}) <= MaxIds

\* a call of process p finishes and returns r
Finish(p, r) ==
    /\ pc' = [pc EXCEPT ![p] = "idle"]
    /\ loc' = [loc EXCEPT ![p] = NoLoc]
    /\ res' = [res EXCEPT ![p] = r]

\* process p takes a new call: its first statement is l, its locals v
Call(p, l, v) ==
    /\ pc' = [pc EXCEPT ![p] = l]
    /\ loc' = [loc EXCEPT ![p] = v]
    /\ res' = [res EXCEPT ![p] = NoRes]

\* process p moves on to statement l with locals v
Goto(p, l, v) ==
    /\ pc' = [pc EXCEPT ![p] = l]
    /\ loc' = [loc EXCEPT ![p] = v]
    /\ UNCHANGED res

Init ==
    /\ sessions = {}
    /\ refreshTokens = {}
    /\ legacyTokens = {}
    /\ issued = {}
    /\ now = 0
    /\ nextId = 1
    /\ pc = [p \in Procs |-> "idle"]
    /\ loc = [p \in Procs |-> NoLoc]
    /\ res = [p \in Procs |-> NoRes]

\* the clock advances
Tick ==
    /\ now < MaxTime
    /\ now' = now + 1
    /\ UNCHANGED <<sessions, refreshTokens, legacyTokens, issued, nextId, pc, loc, res>>

----------------------------------------------------------------------------
\* TokenService.generateTokens (with createSession and enforceSessionLimit)
\* loc.user is the userId, loc.ret says who called: "direct", "login",
\* "route" (authenticateUser), "prelogin" (createLoginSession) or "rotate".

\* Variant of enforceSessionLimit_count that evicts only above the maximum (> for >=)
enforceSessionLimit_count_above(p) ==
    /\ pc[p] = "gt_count"
    /\ LET sessionCount == Cardinality(SessionsOf(loc[p].user))
       IN  IF sessionCount > MAX_SESSIONS_PER_USER
           THEN Goto(p, "gt_evict", [loc[p] EXCEPT !.cnt = sessionCount])
           ELSE Goto(p, "gt_insert", [loc[p] EXCEPT !.cnt = sessionCount])
    /\ UNCHANGED <<sessions, refreshTokens, legacyTokens, issued, now, nextId>>

\* enforceSessionLimit: SELECT COUNT(*) FROM user_sessions_wa WHERE user_id = $1
enforceSessionLimit_count(p) ==
    /\ pc[p] = "gt_count"
    /\ LET sessionCount == Cardinality(SessionsOf(loc[p].user))
       IN  IF sessionCount >= MAX_SESSIONS_PER_USER
           THEN Goto(p, "gt_evict", [loc[p] EXCEPT !.cnt = sessionCount])
           ELSE Goto(p, "gt_insert", [loc[p] EXCEPT !.cnt = sessionCount])
    /\ UNCHANGED <<sessions, refreshTokens, legacyTokens, issued, now, nextId>>

\* enforceSessionLimit: DELETE ... ORDER BY last_active ASC LIMIT 1
enforceSessionLimit_evict(p) ==
    /\ pc[p] = "gt_evict"
    /\ \/ /\ SessionsOf(loc[p].user) = {}
          /\ UNCHANGED sessions
       \/ \E s \in OldestSessions(loc[p].user) : sessions' = sessions \ {s}
    /\ Goto(p, "gt_insert", loc[p])
    /\ UNCHANGED <<refreshTokens, legacyTokens, issued, now, nextId>>

\* Variant of createSession_insert that, in a rotation, writes the new row under the
\* token id of the session being rotated
createSession_insert_sameToken(p) ==
    /\ pc[p] = "gt_insert"
    /\ sessions' = sessions \cup
           {[id |-> SessionIdOf(nextId), user_id |-> loc[p].user,
             token_id |-> IF loc[p].ret = "rotate" THEN loc[p].tok.tokenId ELSE uuidv4(nextId),
             is_marked_for_deletion |-> FALSE, marked_at |-> NULL, last_active |-> now,
             activity_count |-> 0]}
    /\ nextId' = nextId + 1
    /\ Goto(p, "gt_store", [loc[p] EXCEPT !.tid = IF loc[p].ret = "rotate" THEN loc[p].tok.tokenId
                                                 ELSE uuidv4(nextId)])
    /\ UNCHANGED <<refreshTokens, legacyTokens, issued, now>>

\* createSession: INSERT INTO user_sessions_wa (...) with a fresh token id
createSession_insert(p) ==
    /\ pc[p] = "gt_insert"
    /\ sessions' = sessions \cup
           {[id |-> SessionIdOf(nextId), user_id |-> loc[p].user, token_id |-> uuidv4(nextId),
             is_marked_for_deletion |-> FALSE, marked_at |-> NULL, last_active |-> now,
             activity_count |-> 0]}
    /\ nextId' = nextId + 1
    /\ Goto(p, "gt_store", [loc[p] EXCEPT !.tid = uuidv4(nextId)])
    /\ UNCHANGED <<refreshTokens, legacyTokens, issued, now>>

\* the TokenResponse of generateTokens: both tokens signed when the refresh row is stored
TokenResponse(userId, tokenId, t) ==
    [token |-> jwt_sign(userId, tokenId, JWT_SECRET, TOKEN_EXPIRATION, t),
     refreshToken |-> jwt_sign(userId, tokenId, JWT_SECRET, REFRESH_TOKEN_EXPIRATION, t),
     sessionId |-> tokenId]

\* what the caller of generateTokens does with the returned tokens
generateTokens_return(p, tokens) ==
    CASE loc[p].ret = "rotate" ->
            /\ Goto(p, "rot_revoke", [loc[p] EXCEPT !.n2 = now])
            /\ UNCHANGED issued
      [] loc[p].ret = "prelogin" ->
            /\ Goto(p, "pl_commit", [loc[p] EXCEPT !.n2 = now])
            /\ UNCHANGED issued
      [] loc[p].ret = "route" ->
            /\ Finish(p, [NoRes EXCEPT !.op = "postLogin", !.outcome = "ok", !.status = 200,
                                       !.user = loc[p].user, !.pair = tokens])
            /\ issued' = issued \cup {tokens}
      [] loc[p].ret = "login" ->
            /\ Finish(p, [NoRes EXCEPT !.op = "login", !.outcome = "ok",
                                       !.user = loc[p].user, !.pair = tokens])
            /\ issued' = issued \cup {tokens}
      [] OTHER ->
            /\ Finish(p, [NoRes EXCEPT !.op = "generateTokens", !.outcome = "ok",
                                       !.user = loc[p].user, !.pair = tokens])
            /\ issued' = issued \cup {tokens}

\* generateTokens: jwt.sign twice, INSERT INTO refresh_tokens_wa, return
generateTokens_store(p) ==
    /\ pc[p] = "gt_store"
    /\ refreshTokens' = refreshTokens \cup
           {[token_id |-> loc[p].tid, user_id |-> loc[p].user,
             expires_at |-> now + REFRESH_TOKEN_EXPIRATION, is_revoked |-> FALSE]}
    /\ generateTokens_return(p, TokenResponse(loc[p].user, loc[p].tid, now))
    /\ UNCHANGED <<sessions, legacyTokens, now, nextId>>

\* a direct call of generateTokens (login controller, register, createLoginSession)
generateTokens(p, u) ==
    /\ pc[p] = "idle"
    /\ CanCreate
    /\ Call(p, "gt_count", [NoLoc EXCEPT !.user = u, !.ret = "direct"])
    /\ UNCHANGED <<sessions, refreshTokens, legacyTokens, issued, now, nextId>>

\* the login controller: findByUsername, is_active, verifyPassword, then generateTokens
\* with no look at the number of sessions
login(p, u, cred) ==
    /\ pc[p] = "idle"
    /\ CanCreate
    /\ IF cred = "ok"
       THEN Call(p, "gt_count", [NoLoc EXCEPT !.user = u, !.ret = "direct", !.cred = cred])
       ELSE Finish(p, [NoRes EXCEPT !.op = "loginController", !.outcome = "AuthError",
                                    !.message = IF cred = "badpw"
                                                THEN "Invalid credentials. N attempts remaining."
                                                ELSE "Invalid credentials",
                                    !.status = 401, !.user = u, !.cred = cred])
    /\ UNCHANGED <<sessions, refreshTokens, legacyTokens, issued, now, nextId>>

----------------------------------------------------------------------------
\* AuthService.login(username, password, deviceInfo)
\* cred: "ok", "unknown" (no such user), "inactive", "badpw"

\* ids of the rows of user u among `rows` that are not marked for deletion
ActiveIdsIn(rows, u) == {s.id : s \in {x \in rows : x.user_id = u /\ ~x.is_marked_for_deletion}}

\* ids of the user's sessions that are not marked for deletion
ActiveIds(u) == ActiveIdsIn(sessions, u)

\* the call that process p finished last was a successful pre-login termination for
\* user u, and the user's rows are still as that termination left them
AfterTermination(p, u) ==
    /\ res[p].op = "terminatePreLoginSession"
    /\ res[p].outcome = "ok"
    /\ res[p].user = u
    /\ ActiveIds(u) = res[p].snap \ {res[p].sid}
    /\ Cardinality(SessionsOf(u)) = res[p].count

AuthService_login(p, u, cred) ==
    /\ pc[p] = "idle"
    /\ CanCreate
    /\ IF cred = "ok"
       THEN Call(p, "login_count", [NoLoc EXCEPT !.op = "login", !.user = u, !.ret = "login",
                                                 !.snap = IF AfterTermination(p, u) THEN res[p].snap ELSE {},
                                                 !.sid = IF AfterTermination(p, u) THEN res[p].sid ELSE 0,
                                                 !.n2 = nextId])
       ELSE Finish(p, [NoRes EXCEPT !.op = "login", !.outcome = "AuthError",
                                    !.message = "Invalid credentials", !.status = 401,
                                    !.user = u, !.cred = cred])
    /\ UNCHANGED <<sessions, refreshTokens, legacyTokens, issued, now, nextId>>

\* Variant of AuthService_login_count that refuses only above the maximum (> for >=)
AuthService_login_count_above(p) ==
    /\ pc[p] = "login_count"
    /\ LET activeSessionCount == getActiveSessions(loc[p].user)
       IN  IF activeSessionCount > MAX_SESSIONS_PER_USER
           THEN Finish(p, [NoRes EXCEPT !.op = "login", !.outcome = "MaxSessionsError",
                                        !.message = "Maximum number of sessions reached",
                                        !.user = loc[p].user, !.sessions = {},
                                        !.count = activeSessionCount])
           ELSE Goto(p, "gt_count", [loc[p] EXCEPT !.n1 = activeSessionCount])
    /\ UNCHANGED <<sessions, refreshTokens, legacyTokens, issued, now, nextId>>

\* getActiveSessions, then throw new MaxSessionsError([], user.id) (the class of
\* config/auth.ts: a plain Error with a message, an empty session list and the user id)
\* or go on to generateTokens
AuthService_login_count(p) ==
    /\ pc[p] = "login_count"
    /\ LET activeSessionCount == getActiveSessions(loc[p].user)
       IN  IF activeSessionCount >= MAX_SESSIONS_PER_USER
           THEN Finish(p, [NoRes EXCEPT !.op = "login", !.outcome = "MaxSessionsError",
                                        !.message = "Maximum number of sessions reached",
                                        !.user = loc[p].user, !.sessions = {},
                                        !.count = activeSessionCount])
           ELSE Goto(p, "gt_count", [loc[p] EXCEPT !.n1 = activeSessionCount])
    /\ UNCHANGED <<sessions, refreshTokens, legacyTokens, issued, now, nextId>>

----------------------------------------------------------------------------
\* POST /login: router.post('/login') around authenticateUser

\* findByUsername and verifyPassword; authenticateUser does not look at is_active
authenticateUser(p, u, cred) ==
    /\ pc[p] = "idle"
    /\ CanCreate
    /\ IF cred \in {"ok", "inactive"}
       THEN Call(p, "au_count", [NoLoc EXCEPT !.user = u, !.ret = "route", !.cred = cred])
       ELSE Finish(p, [NoRes EXCEPT !.op = "postLogin", !.outcome = "refused",
                                    !.message = "Invalid credentials", !.status = 401,
                                    !.user = u, !.cred = cred])
    /\ UNCHANGED <<sessions, refreshTokens, legacyTokens, issued, now, nextId>>

\* the MaxSessionsError([], user.id) is caught inside authenticateUser and comes
\* back as {success: false, error: error.message}; the route answers it with 401
authenticateUser_count(p) ==
    /\ pc[p] = "au_count"
    /\ LET activeSessionCount == getActiveSessions(loc[p].user)
       IN  IF activeSessionCount >= MAX_SESSIONS_PER_USER
           THEN Finish(p, [NoRes EXCEPT !.op = "postLogin", !.outcome = "refused",
                                        !.code = "Maximum number of sessions reached",
                                        !.status = 401, !.user = loc[p].user,
                                        !.sessions = {}, !.count = activeSessionCount])
           ELSE Goto(p, "gt_count", [loc[p] EXCEPT !.n1 = activeSessionCount])
    /\ UNCHANGED <<sessions, refreshTokens, legacyTokens, issued, now, nextId>>

----------------------------------------------------------------------------
\* TokenService.rotateTokens and AuthService.refreshToken / refreshAccessToken

\* throw new AuthError(message, 401); the result keeps the token presented and the
\* mark n1 the call was taken with
AuthErrorOf(p, message) ==
    [NoRes EXCEPT !.op = loc[p].op, !.outcome = "AuthError", !.message = message,
                  !.status = 401, !.payload = loc[p].tok, !.count = loc[p].n1]

\* 1 when the call that process p finished last was a rotation that returned a new
\* pair for this very token, else 0
JustRotated(p, tok) ==
    IF res[p].op \in {"rotateTokens", "refreshToken"} /\ res[p].outcome = "ok" /\ res[p].payload = tok
    THEN 1 ELSE 0

\* 2 when the call that process p finished last was a successful TokenService.logout
\* of this token's id, 3 when it was a successful AuthService.logout of the session
\* that carries this token's id, else 0
JustLoggedOut(p, tok) ==
    IF res[p].outcome = "ok" /\ res[p].op = "TokenService.logout" /\ res[p].sid = tok.tokenId
    THEN 2
    ELSE IF res[p].outcome = "ok" /\ res[p].op = "AuthService.logout"
               /\ \E x \in sessions : x.id = res[p].sid /\ x.user_id = res[p].user
                                        /\ x.token_id = tok.tokenId
         THEN 3
    ELSE 0

\* loc.snap is the table user_sessions_wa as the call finds it
rotateTokens(p, tok) ==
    /\ pc[p] = "idle"
    /\ CanCreate
    /\ Call(p, "rot_begin", [NoLoc EXCEPT !.op = "rotateTokens", !.tok = tok, !.ret = "rotate",
                                         !.n1 = JustRotated(p, tok) + JustLoggedOut(p, tok),
                                         !.snap = sessions])
    /\ UNCHANGED <<sessions, refreshTokens, legacyTokens, issued, now, nextId>>

\* AuthService.refreshToken: isRefreshTokenValid first, then rotateTokens
AuthService_refreshToken(p, tok) ==
    /\ pc[p] = "idle"
    /\ CanCreate
    /\ Call(p, "rf_valid", [NoLoc EXCEPT !.op = "refreshToken", !.tok = tok, !.ret = "rotate",
                                        !.n1 = JustRotated(p, tok) + JustLoggedOut(p, tok)])
    /\ UNCHANGED <<sessions, refreshTokens, legacyTokens, issued, now, nextId>>

AuthService_refreshToken_valid(p) ==
    /\ pc[p] = "rf_valid"
    /\ IF isRefreshTokenValid(loc[p].tok)
       THEN Goto(p, "rot_begin", loc[p])
       ELSE Finish(p, AuthErrorOf(p, "Invalid refresh token"))
    /\ UNCHANGED <<sessions, refreshTokens, legacyTokens, issued, now, nextId>>

\* BEGIN; jwt.verify: an error that is no AuthError becomes 'Failed to rotate tokens'
rotateTokens_begin(p) ==
    /\ pc[p] = "rot_begin"
    /\ IF jwt_verify(loc[p].tok, JWT_SECRET, now) = "ok"
       THEN Goto(p, "rot_valid", [loc[p] EXCEPT !.user = loc[p].tok.userId])
       ELSE Finish(p, AuthErrorOf(p, "Failed to rotate tokens"))
    /\ UNCHANGED <<sessions, refreshTokens, legacyTokens, issued, now, nextId>>

rotateTokens_valid(p) ==
    /\ pc[p] = "rot_valid"
    /\ IF isRefreshTokenValid(loc[p].tok)
       THEN Goto(p, "rot_session", loc[p])
       ELSE Finish(p, AuthErrorOf(p, "Invalid refresh token"))
    /\ UNCHANGED <<sessions, refreshTokens, legacyTokens, issued, now, nextId>>

\* SELECT device_type, ... FROM user_sessions_wa WHERE token_id = $1
rotateTokens_session(p) ==
    /\ pc[p] = "rot_session"
    /\ IF \E s \in sessions : s.token_id = loc[p].tok.tokenId
       THEN Goto(p, "gt_count", loc[p])
       ELSE Finish(p, AuthErrorOf(p, "Session not found"))
    /\ UNCHANGED <<sessions, refreshTokens, legacyTokens, issued, now, nextId>>

\* UPDATE refresh_tokens_wa SET is_revoked = true WHERE token_id = $1; COMMIT; return newTokens
rotateTokens_revoke(p) ==
    /\ pc[p] = "rot_revoke"
    /\ refreshTokens' = {IF r.token_id = loc[p].tok.tokenId THEN [r EXCEPT !.is_revoked = TRUE] ELSE r
                          : r \in refreshTokens}
    /\ LET newTokens == TokenResponse(loc[p].user, loc[p].tid, loc[p].n2)
       IN  /\ Finish(p, [NoRes EXCEPT !.op = loc[p].op, !.outcome = "ok", !.user = loc[p].user,
                                      !.pair = newTokens, !.payload = loc[p].tok])
           /\ issued' = issued \cup {newTokens}
    /\ UNCHANGED <<sessions, legacyTokens, now, nextId>>

----------------------------------------------------------------------------
\* TokenService.logout(userId, tokenId)

\* 1 when the call that process p finished last was the same logout with the same
\* arguments and succeeded, else 0
SameLogoutAgain(p, op, u, arg) ==
    IF res[p].op = op /\ res[p].outcome = "ok" /\ res[p].user = u /\ res[p].sid = arg
    THEN 1 ELSE 0

TokenService_logout(p, u, tokenId) ==
    /\ pc[p] = "idle"
    /\ Call(p, "lo_delete", [NoLoc EXCEPT !.op = "TokenService.logout", !.user = u, !.tid = tokenId,
                                         !.n2 = SameLogoutAgain(p, "TokenService.logout", u, tokenId)])
    /\ UNCHANGED <<sessions, refreshTokens, legacyTokens, issued, now, nextId>>

\* Variant of TokenService_logout_delete that leaves the session row in place
TokenService_logout_delete_none(p) ==
    /\ pc[p] = "lo_delete"
    /\ Goto(p, "lo_revoke", loc[p])
    /\ UNCHANGED <<sessions, refreshTokens, legacyTokens, issued, now, nextId>>

\* BEGIN; DELETE FROM user_sessions_wa WHERE user_id = $1 AND token_id = $2
TokenService_logout_delete(p) ==
    /\ pc[p] = "lo_delete"
    /\ sessions' = {s \in sessions : ~(s.user_id = loc[p].user /\ s.token_id = loc[p].tid)}
    /\ Goto(p, "lo_revoke", loc[p])
    /\ UNCHANGED <<refreshTokens, legacyTokens, issued, now, nextId>>

\* UPDATE refresh_tokens_wa SET is_revoked = true WHERE user_id = $1 AND token_id = $2
TokenService_logout_revoke(p) ==
    /\ pc[p] = "lo_revoke"
    /\ refreshTokens' = {IF r.user_id = loc[p].user /\ r.token_id = loc[p].tid
                          THEN [r EXCEPT !.is_revoked = TRUE] ELSE r : r \in refreshTokens}
    /\ Goto(p, "lo_verify", loc[p])
    /\ UNCHANGED <<sessions, legacyTokens, issued, now, nextId>>

\* SELECT is_revoked ... WHERE token_id = $1; throw unless rows[0]?.is_revoked; COMMIT
TokenService_logout_verify(p) ==
    /\ pc[p] = "lo_verify"
    /\ IF \E r \in refreshTokens : r.token_id = loc[p].tid /\ r.is_revoked
       THEN Finish(p, [NoRes EXCEPT !.op = loc[p].op, !.outcome = "ok", !.user = loc[p].user,
                                    !.sid = loc[p].tid, !.count = loc[p].n2])
       ELSE Finish(p, [NoRes EXCEPT !.op = loc[p].op, !.outcome = "Error", !.user = loc[p].user,
                                    !.message = "Failed to revoke refresh token", !.sid = loc[p].tid])
    /\ UNCHANGED <<sessions, refreshTokens, legacyTokens, issued, now, nextId>>

----------------------------------------------------------------------------
\* AuthService.logout(sessionId, userId)

AuthService_logout(p, sessionId, u) ==
    /\ pc[p] = "idle"
    /\ Call(p, "al_select", [NoLoc EXCEPT !.op = "AuthService.logout", !.user = u, !.sid = sessionId,
                                         !.n2 = SameLogoutAgain(p, "AuthService.logout", u, sessionId)])
    /\ UNCHANGED <<sessions, refreshTokens, legacyTokens, issued, now, nextId>>

\* Variant of AuthService_logout_select that does not find a row already marked for deletion
AuthService_logout_select_unmarked(p) ==
    /\ pc[p] = "al_select"
    /\ \/ \E s \in sessions :
             /\ s.id = loc[p].sid /\ s.user_id = loc[p].user /\ ~s.is_marked_for_deletion
             /\ Goto(p, "al_mark", [loc[p] EXCEPT !.tid = s.token_id])
       \/ /\ ~\E s \in sessions : s.id = loc[p].sid /\ s.user_id = loc[p].user
                                    /\ ~s.is_marked_for_deletion
          /\ Finish(p, [NoRes EXCEPT !.op = loc[p].op, !.outcome = "AuthError", !.status = 404,
                                     !.message = "Session not found", !.user = loc[p].user,
                                     !.sid = loc[p].sid])
    /\ UNCHANGED <<sessions, refreshTokens, legacyTokens, issued, now, nextId>>

\* BEGIN; SELECT token_id FROM user_sessions_wa WHERE id = $1 AND user_id = $2
AuthService_logout_select(p) ==
    /\ pc[p] = "al_select"
    /\ \/ \E s \in sessions :
             /\ s.id = loc[p].sid /\ s.user_id = loc[p].user
             /\ Goto(p, "al_mark", [loc[p] EXCEPT !.tid = s.token_id])
       \/ /\ ~\E s \in sessions : s.id = loc[p].sid /\ s.user_id = loc[p].user
          /\ Finish(p, [NoRes EXCEPT !.op = loc[p].op, !.outcome = "AuthError", !.status = 404,
                                     !.message = "Session not found", !.user = loc[p].user,
                                     !.sid = loc[p].sid])
    /\ UNCHANGED <<sessions, refreshTokens, legacyTokens, issued, now, nextId>>

\* UPDATE user_sessions_wa SET is_marked_for_deletion = true, marked_at = NOW() WHERE id AND user_id
MarkRows(sessionId, u) ==
    {IF s.id = sessionId /\ s.user_id = u
     THEN [s EXCEPT !.is_marked_for_deletion = TRUE, !.marked_at = now]
     ELSE s
       : s \in sessions}

AuthService_logout_mark(p) ==
    /\ pc[p] = "al_mark"
    /\ sessions' = MarkRows(loc[p].sid, loc[p].user)
    /\ Goto(p, "al_revoke", loc[p])
    /\ UNCHANGED <<refreshTokens, legacyTokens, issued, now, nextId>>

\* Variant of AuthService_logout_revoke that returns without revoking the refresh row
AuthService_logout_revoke_skip(p) ==
    /\ pc[p] = "al_revoke"
    /\ Finish(p, [NoRes EXCEPT !.op = loc[p].op, !.outcome = "ok", !.user = loc[p].user,
                               !.sid = loc[p].sid])
    /\ UNCHANGED <<sessions, refreshTokens, legacyTokens, issued, now, nextId>>

\* UPDATE refresh_tokens_wa SET is_revoked = true WHERE token_id = $1; COMMIT; return true
AuthService_logout_revoke(p) ==
    /\ pc[p] = "al_revoke"
    /\ refreshTokens' = {IF r.token_id = loc[p].tid THEN [r EXCEPT !.is_revoked = TRUE] ELSE r
                          : r \in refreshTokens}
    /\ Finish(p, [NoRes EXCEPT !.op = loc[p].op, !.outcome = "ok", !.user = loc[p].user,
                               !.sid = loc[p].sid, !.count = loc[p].n2])
    /\ UNCHANGED <<sessions, legacyTokens, issued, now, nextId>>

----------------------------------------------------------------------------
\* SessionManager.markSessionForDeletion(sessionId, userId), also reached through
\* TokenService.terminateSession(userId, sessionId): a single UPDATE

markSessionForDeletion(p, sessionId, u) ==
    /\ pc[p] = "idle"
    /\ sessions' = MarkRows(sessionId, u)
    /\ Finish(p, [NoRes EXCEPT !.op = "markSessionForDeletion", !.outcome = "ok", !.user = u,
                               !.sid = sessionId])
    /\ UNCHANGED <<refreshTokens, legacyTokens, issued, now, nextId>>

----------------------------------------------------------------------------
\* preLoginWithSessionTermination: BEGIN, mark the old session, createLoginSession,
\* markSessionForDeletion, COMMIT; ROLLBACK in the catch block.
\* loc.sid is sessionToTerminate.id, loc.user the user of the request, loc.snap the
\* table user_sessions_wa before the call.  loc.undo.conn tells whether the pool
\* hands the statements the connection that ran BEGIN ("same": the writes wait in
\* its transaction and ROLLBACK undoes them) or another one ("other": each write
\* commits at once and ROLLBACK finds nothing to undo).

preLoginWithSessionTermination(p, u, cred, sessionId, conn) ==
    /\ pc[p] = "idle"
    /\ CanCreate
    /\ Call(p, "pl_mark", [NoLoc EXCEPT !.op = "preLoginWithSessionTermination", !.user = u,
                                       !.cred = cred, !.sid = sessionId, !.ret = "prelogin",
                                       !.snap = sessions,
                                       !.undo = [conn |-> conn, sessions |-> sessions,
                                                 refreshTokens |-> refreshTokens]])
    /\ UNCHANGED <<sessions, refreshTokens, legacyTokens, issued, now, nextId>>

\* 1. UPDATE user_sessions_wa SET is_marked_for_deletion = TRUE, marked_at = NOW(), ...
\*    WHERE id = $1 AND user_id = $2
preLoginWithSessionTermination_mark(p) ==
    /\ pc[p] = "pl_mark"
    /\ sessions' = MarkRows(loc[p].sid, loc[p].user)
    /\ Goto(p, "pl_login", loc[p])
    /\ UNCHANGED <<refreshTokens, legacyTokens, issued, now, nextId>>

\* 2. createLoginSession: findByUsername and verifyPassword, with no look at
\*    is_active; AuthError('Invalid credentials') goes to the catch block, which
\*    sends ROLLBACK and throws the error on; else on to generateTokens
createLoginSession(p) ==
    /\ pc[p] = "pl_login"
    /\ IF loc[p].cred \in {"ok", "inactive"}
       THEN /\ Goto(p, "gt_count", loc[p])
            /\ UNCHANGED <<sessions, refreshTokens>>
       ELSE /\ IF loc[p].undo.conn = "same"
               THEN /\ sessions' = loc[p].undo.sessions
                    /\ refreshTokens' = loc[p].undo.refreshTokens
               ELSE UNCHANGED <<sessions, refreshTokens>>
            /\ Finish(p, [NoRes EXCEPT !.op = loc[p].op, !.outcome = "AuthError",
                                       !.message = "Invalid credentials", !.user = loc[p].user,
                                       !.sid = loc[p].sid, !.cred = loc[p].cred])
    /\ UNCHANGED <<legacyTokens, issued, now, nextId>>

\* 3. SessionManager.markSessionForDeletion(id, userId); COMMIT; res.json(loginResult)
preLoginWithSessionTermination_commit(p) ==
    /\ pc[p] = "pl_commit"
    /\ sessions' = MarkRows(loc[p].sid, loc[p].user)
    /\ issued' = issued \cup {TokenResponse(loc[p].user, loc[p].tid, loc[p].n2)}
    /\ Finish(p, [NoRes EXCEPT !.op = loc[p].op, !.outcome = "ok", !.status = 200,
                               !.user = loc[p].user, !.sid = loc[p].sid,
                               !.pair = TokenResponse(loc[p].user, loc[p].tid, loc[p].n2)])
    /\ UNCHANGED <<refreshTokens, legacyTokens, now, nextId>>

----------------------------------------------------------------------------
\* SessionManager.getUserSessions(userId): one SELECT

\* the columns of a session row that the SELECT returns
SessionInfo(s) == [id |-> s.id, token_id |-> s.token_id, last_active |-> s.last_active]

\* every order the database may return the rows S in under ORDER BY last_active DESC
\* (rows with equal last_active come in any order)
OrderByLastActiveDesc(S) ==
    {f \in [1 .. Cardinality(S) -> S] :
        /\ \A i, j \in 1 .. Cardinality(S) : i # j => f[i] # f[j]
        /\ \A i, j \in 1 .. Cardinality(S) : i < j => f[i].last_active >= f[j].last_active}

\* Variant of getUserSessions without the condition NOT is_marked_for_deletion
getUserSessions_all(p, u) ==
    /\ pc[p] = "idle"
    /\ \E f \in OrderByLastActiveDesc({SessionInfo(s) : s \in SessionsOf(u)}) :
          Finish(p, [NoRes EXCEPT !.op = "getUserSessions", !.outcome = "ok", !.user = u,
                                  !.rows = f])
    /\ UNCHANGED <<sessions, refreshTokens, legacyTokens, issued, now, nextId>>

\* SELECT id, token_id, ..., last_active ... WHERE user_id = $1 AND NOT is_marked_for_deletion
\* ORDER BY last_active DESC; return result.rows
getUserSessions(p, u) ==
    /\ pc[p] = "idle"
    /\ \E f \in OrderByLastActiveDesc({SessionInfo(s) : s \in {x \in SessionsOf(u) :
                                                                    ~x.is_marked_for_deletion}}) :
          Finish(p, [NoRes EXCEPT !.op = "getUserSessions", !.outcome = "ok", !.user = u,
                                  !.rows = f])
    /\ UNCHANGED <<sessions, refreshTokens, legacyTokens, issued, now, nextId>>

----------------------------------------------------------------------------
\* terminatePreLoginSession (POST /terminate-pre-login), body {userId, sessionId}

terminatePreLoginSession(p, u, sessionId) ==
    /\ pc[p] = "idle"
    /\ Call(p, "tp_select", [NoLoc EXCEPT !.op = "terminatePreLoginSession", !.user = u,
                                         !.sid = sessionId,
                                         !.snap = ActiveIds(u)])
    /\ UNCHANGED <<sessions, refreshTokens, legacyTokens, issued, now, nextId>>

\* Variant of terminatePreLoginSession_select that looks the row up by id alone
terminatePreLoginSession_select_anyOwner(p) ==
    /\ pc[p] = "tp_select"
    /\ \/ \E s \in sessions :
             /\ s.id = loc[p].sid
             /\ Goto(p, "tp_deltok", [loc[p] EXCEPT !.tid = s.token_id, !.user = s.user_id])
       \/ /\ ~\E s \in sessions : s.id = loc[p].sid
          /\ Finish(p, [NoRes EXCEPT !.op = loc[p].op, !.outcome = "SessionTerminationError",
                                     !.status = 404, !.code = "SESSION_NOT_FOUND",
                                     !.message = "Session not found or already terminated",
                                     !.user = loc[p].user, !.sid = loc[p].sid])
    /\ UNCHANGED <<sessions, refreshTokens, legacyTokens, issued, now, nextId>>

\* BEGIN; SET LOCAL lock_timeout; SELECT id, token_id ... WHERE id = $1 AND user_id = $2 FOR UPDATE NOWAIT
terminatePreLoginSession_select(p) ==
    /\ pc[p] = "tp_select"
    /\ \/ \E s \in sessions :
             /\ s.id = loc[p].sid /\ s.user_id = loc[p].user
             /\ Goto(p, "tp_deltok", [loc[p] EXCEPT !.tid = s.token_id])
       \/ /\ ~\E s \in sessions : s.id = loc[p].sid /\ s.user_id = loc[p].user
          /\ Finish(p, [NoRes EXCEPT !.op = loc[p].op, !.outcome = "SessionTerminationError",
                                     !.status = 404, !.code = "SESSION_NOT_FOUND",
                                     !.message = "Session not found or already terminated",
                                     !.user = loc[p].user, !.sid = loc[p].sid])
    /\ UNCHANGED <<sessions, refreshTokens, legacyTokens, issued, now, nextId>>

\* DELETE FROM refresh_tokens WHERE token_id = $1   (the table without the _wa suffix)
terminatePreLoginSession_deleteTokens(p) ==
    /\ pc[p] = "tp_deltok"
    /\ legacyTokens' = {r \in legacyTokens : r.token_id # loc[p].tid}
    /\ Goto(p, "tp_delsess", loc[p])
    /\ UNCHANGED <<sessions, refreshTokens, issued, now, nextId>>

\* DELETE FROM user_sessions_wa WHERE id = $1 AND user_id = $2 RETURNING id
terminatePreLoginSession_deleteSession(p) ==
    /\ pc[p] = "tp_delsess"
    /\ sessions' = {s \in sessions : ~(s.id = loc[p].sid /\ s.user_id = loc[p].user)}
    /\ Goto(p, "tp_count", loc[p])
    /\ UNCHANGED <<refreshTokens, legacyTokens, issued, now, nextId>>

\* SELECT COUNT(*) FROM user_sessions_wa WHERE user_id = $1; COMMIT; res.json({success: true, ...})
terminatePreLoginSession_count(p) ==
    /\ pc[p] = "tp_count"
    /\ Finish(p, [NoRes EXCEPT !.op = loc[p].op, !.outcome = "ok", !.status = 200,
                               !.user = loc[p].user, !.sid = loc[p].sid,
                               !.payload = [NoTok EXCEPT !.tokenId = loc[p].tid],
                               !.count = Cardinality(SessionsOf(loc[p].user)),
                               !.snap = loc[p].snap])
    /\ UNCHANGED <<sessions, refreshTokens, legacyTokens, issued, now, nextId>>

\* The SELECT ... FOR UPDATE NOWAIT of process p meets the row lock of another request:
\* that request's SELECT ran in an open transaction of its own connection, which has
\* not ended yet.  The statement fails at once, the catch blocks send ROLLBACK and
\* answer 500.  When the statements of both requests share a connection, or run
\* outside a transaction, no lock stands in the way (terminatePreLoginSession_select).
terminatePreLoginSession_locked(p) ==
    /\ pc[p] = "tp_select"
    /\ \E q \in Procs \ {p} :
          /\ pc[q] \in {"tp_deltok", "tp_delsess", "tp_count"}
          /\ loc[q].sid = loc[p].sid /\ loc[q].user = loc[p].user
    /\ Finish(p, [NoRes EXCEPT !.op = loc[p].op, !.outcome = "Error", !.status = 500,
                               !.code = "SERVER_ERROR", !.message = "Failed to terminate session",
                               !.user = loc[p].user, !.sid = loc[p].sid])
    /\ UNCHANGED <<sessions, refreshTokens, legacyTokens, issued, now, nextId>>

----------------------------------------------------------------------------
\* SessionManager.cleanup()

\* loc.n2 is the time the pass begins; loc.tid is 1 when the call that process p
\* finished last was a cleanup pass that began at this same time, else 0
cleanup(p) ==
    /\ pc[p] = "idle"
    /\ Call(p, "cl_marked", [NoLoc EXCEPT !.op = "cleanup", !.n2 = now,
                                         !.tid = IF res[p].op = "cleanup" /\ res[p].outcome = "ok"
                                                    /\ res[p].payload.exp = now
                                                 THEN 1 ELSE 0])
    /\ UNCHANGED <<sessions, refreshTokens, legacyTokens, issued, now, nextId>>

\* Variant of cleanup_marked that counts the marked rows and leaves them in place
cleanup_marked_keep(p) ==
    /\ pc[p] = "cl_marked"
    /\ Goto(p, "cl_expire", [loc[p] EXCEPT !.cnt = Cardinality({s \in sessions : s.is_marked_for_deletion})])
    /\ UNCHANGED <<sessions, refreshTokens, legacyTokens, issued, now, nextId>>

\* BEGIN; DELETE FROM user_sessions_wa WHERE is_marked_for_deletion = true RETURNING id
cleanup_marked(p) ==
    /\ pc[p] = "cl_marked"
    /\ sessions' = {s \in sessions : ~s.is_marked_for_deletion}
    /\ Goto(p, "cl_expire", [loc[p] EXCEPT !.cnt = Cardinality({s \in sessions : s.is_marked_for_deletion})])
    /\ UNCHANGED <<refreshTokens, legacyTokens, issued, now, nextId>>

\* UPDATE refresh_tokens_wa SET is_revoked = true WHERE expires_at < NOW() AND NOT is_revoked RETURNING id
cleanup_expire(p) ==
    /\ pc[p] = "cl_expire"
    /\ refreshTokens' = {IF r.expires_at < now /\ ~r.is_revoked THEN [r EXCEPT !.is_revoked = TRUE] ELSE r
                          : r \in refreshTokens}
    /\ Goto(p, "cl_orphans", [loc[p] EXCEPT !.n1 = Cardinality({r \in refreshTokens : r.expires_at < now /\ ~r.is_revoked})])
    /\ UNCHANGED <<sessions, legacyTokens, issued, now, nextId>>

\* token ids of SELECT token_id FROM refresh_tokens_wa WHERE is_revoked = true OR expires_at < NOW()
DeadTokenIds == {r.token_id : r \in {x \in refreshTokens : x.is_revoked \/ x.expires_at < now}}

\* Variant of cleanup_orphans that reports the rows of the third statement as markedSessions
cleanup_orphans_miscounted(p) ==
    /\ pc[p] = "cl_orphans"
    /\ sessions' = {s \in sessions : s.token_id \notin DeadTokenIds}
    /\ Finish(p, [NoRes EXCEPT !.op = loc[p].op, !.outcome = "ok",
                               !.count = Cardinality({s \in sessions : s.token_id \in DeadTokenIds}),
                               !.status = loc[p].n1,
                               !.sid = Cardinality({s \in sessions : s.token_id \in DeadTokenIds}),
                               !.payload = [NoTok EXCEPT !.exp = loc[p].n2]])
    /\ UNCHANGED <<refreshTokens, legacyTokens, issued, now, nextId>>

\* DELETE FROM user_sessions_wa WHERE token_id IN (...) RETURNING id; COMMIT; return the counts
cleanup_orphans(p) ==
    /\ pc[p] = "cl_orphans"
    /\ sessions' = {s \in sessions : s.token_id \notin DeadTokenIds}
    /\ Finish(p, [NoRes EXCEPT !.op = loc[p].op, !.outcome = "ok",
                               !.count = loc[p].cnt,
                               !.status = loc[p].n1,
                               !.sid = Cardinality({s \in sessions : s.token_id \in DeadTokenIds}),
                               !.payload = [NoTok EXCEPT !.exp = loc[p].n2]])
    /\ UNCHANGED <<refreshTokens, legacyTokens, issued, now, nextId>>

\* The pass that the cron job of startCleanupJob runs in the live server.
\* DatabasePool.query takes a connection from the pool for each statement and
\* releases it afterwards.  When nothing else uses the pool, every statement of the
\* pass gets the connection that ran BEGIN ("same") and the transaction is real; when
\* other requests keep that connection busy, the statements run on a connection
\* without an open transaction ("other") and each commits at once.  Which of the two
\* happens is up to the pool.
Connections == {"same", "other"}

\* SessionManager.metrics, the static record behind checkHealth.  No statement of
\* the program assigns errorCount after its initialisation.
metrics == [errorCount |-> 0]

\* how many runs of the cron callback in a row have failed when process p starts
\* its next call; a call of checkHealth in between does not end the row
FailedRuns(p) ==
    IF res[p].op = "cleanup" /\ res[p].outcome = "Error" THEN res[p].count
    ELSE IF res[p].op = "checkHealth" THEN res[p].count
    ELSE 0

\* The callback of the cron job: try { await this.cleanup() } catch { Logger.error }.
\* loc.sid is the number of failed runs right before this one.
startCleanupJob_tick(p, conn) ==
    /\ pc[p] = "idle"
    /\ FailedRuns(p) <= HealthRuns
    /\ Call(p, "cl_marked", [NoLoc EXCEPT !.op = "cleanup", !.n2 = now, !.sid = FailedRuns(p),
                                         !.undo = [conn |-> conn, sessions |-> sessions,
                                                   refreshTokens |-> refreshTokens]])
    /\ UNCHANGED <<sessions, refreshTokens, legacyTokens, issued, now, nextId>>

\* SessionManager.checkHealth(); res.count carries the row of failed runs on
checkHealth(p) ==
    /\ pc[p] = "idle"
    /\ Finish(p, [NoRes EXCEPT !.op = "checkHealth",
                               !.outcome = IF metrics.errorCount > 5 THEN "unhealthy" ELSE "healthy",
                               !.count = FailedRuns(p)])
    /\ UNCHANGED <<sessions, refreshTokens, legacyTokens, issued, now, nextId>>

cleanupJob(p, conn) ==
    /\ pc[p] = "idle"
    /\ Call(p, "cl_marked", [NoLoc EXCEPT !.op = "cleanup", !.n2 = now,
                                         !.undo = [conn |-> conn, sessions |-> sessions,
                                                   refreshTokens |-> refreshTokens]])
    /\ UNCHANGED <<sessions, refreshTokens, legacyTokens, issued, now, nextId>>

\* The pass is cut short after its first or second statement: the process exits
\* (handleConnectionError) and the server drops its connections, or the next
\* statement fails and the catch block sends ROLLBACK.  Writes made inside the
\* transaction are undone, writes that were committed at once stay.
cleanup_interrupted(p) ==
    /\ pc[p] \in {"cl_expire", "cl_orphans"}
    /\ loc[p].undo.conn \in Connections
    /\ IF loc[p].undo.conn = "same"
       THEN /\ sessions' = loc[p].undo.sessions
            /\ refreshTokens' = loc[p].undo.refreshTokens
       ELSE UNCHANGED <<sessions, refreshTokens>>
    /\ Finish(p, [NoRes EXCEPT !.op = loc[p].op, !.outcome = "Error", !.count = loc[p].sid + 1])
    /\ UNCHANGED <<legacyTokens, issued, now, nextId>>

----------------------------------------------------------------------------
\* TokenService.verifyToken(token)

\* jsonwebtoken's TokenExpiredError is a subclass of JsonWebTokenError
instanceof_JsonWebTokenError(e) == e \in {"JsonWebTokenError", "TokenExpiredError"}

\* what the call that process p finished last did to this token: 1 when it returned
\* the pair the token belongs to, 2 when it was a successful TokenService.logout of the
\* token's id, 3 when it was a successful AuthService.logout or markSessionForDeletion
\* of the session that carries the token's id, else 0
VerifyMark(p, tok) ==
    IF res[p].outcome = "ok" /\ res[p].pair.token = tok THEN 1
    ELSE IF res[p].outcome = "ok" /\ res[p].op = "TokenService.logout" /\ res[p].sid = tok.tokenId
         THEN 2
    ELSE IF res[p].outcome = "ok" /\ res[p].op \in {"AuthService.logout", "markSessionForDeletion"}
               /\ \E x \in sessions : x.id = res[p].sid /\ x.user_id = res[p].user
                                        /\ x.token_id = tok.tokenId
         THEN 3
    ELSE 0

verifyToken(p, tok) ==
    /\ pc[p] = "idle"
    /\ Call(p, "vt_select", [NoLoc EXCEPT !.op = "verifyToken", !.tok = tok,
                                         !.n1 = VerifyMark(p, tok)])
    /\ UNCHANGED <<sessions, refreshTokens, legacyTokens, issued, now, nextId>>

\* the error TokenService.verifyToken throws for this token (class "none": no error).
\* The catch block tests instanceof jwt.JsonWebTokenError before jwt.TokenExpiredError.
verifyToken_error(tok) ==
    LET e == jwt_verify(tok, JWT_SECRET, now)
    IN  IF e # "ok"
        THEN [class |-> "AuthError",
              message |-> IF instanceof_JsonWebTokenError(e) THEN "Invalid token"
                          ELSE "Token expired"]
        ELSE IF \E s \in sessions : s.token_id = tok.tokenId /\ s.user_id = tok.userId
             THEN [class |-> "none", message |-> ""]
             ELSE [class |-> "AuthError", message |-> "Session not found"]

instanceof_TokenExpiredError(class) == class = "TokenExpiredError"

\* TokenService.handleExpiredToken(tokenId), refresh_tokens_wa afterwards:
\* UPDATE ... SET is_revoked = true WHERE token_id = $1
handleExpiredToken_tokens(tokenId) ==
    {IF r.token_id = tokenId THEN [r EXCEPT !.is_revoked = TRUE] ELSE r : r \in refreshTokens}

\* TokenService.handleExpiredToken(tokenId), user_sessions_wa afterwards: the rows of
\* the token are marked, and deleted when no usable refresh row is left for it
handleExpiredToken_sessions(tokenId) ==
    LET marked == {IF s.token_id = tokenId
                   THEN [s EXCEPT !.is_marked_for_deletion = TRUE, !.marked_at = now]
                   ELSE s
                     : s \in sessions}
        refreshTokenValid == \E r \in handleExpiredToken_tokens(tokenId) :
                                 r.token_id = tokenId /\ ~r.is_revoked /\ r.expires_at > now
    IN  IF refreshTokenValid THEN marked ELSE {s \in marked : s.token_id # tokenId}

\* the catch block of authenticateToken around verifyToken, and the response it sends
authenticateToken_catch(p, error) ==
    IF instanceof_TokenExpiredError(error.class)
    THEN /\ sessions' = handleExpiredToken_sessions(loc[p].tok.tokenId)
         /\ refreshTokens' = handleExpiredToken_tokens(loc[p].tok.tokenId)
         /\ Finish(p, AuthErrorOf(p, "Token expired"))
    ELSE /\ Finish(p, AuthErrorOf(p, "Invalid token"))
         /\ UNCHANGED <<sessions, refreshTokens>>

\* authenticateToken: the Bearer token of a request goes to TokenService.verifyToken
authenticateToken(p, tok) ==
    /\ pc[p] = "idle"
    /\ Call(p, "vt_select", [NoLoc EXCEPT !.op = "authenticateToken", !.tok = tok])
    /\ UNCHANGED <<sessions, refreshTokens, legacyTokens, issued, now, nextId>>

\* jwt.verify; SELECT * FROM user_sessions_wa WHERE token_id = $1 AND user_id = $2
verifyToken_select(p) ==
    /\ pc[p] = "vt_select"
    /\ LET error == verifyToken_error(loc[p].tok)
       IN  IF error.class = "none"
           THEN /\ Goto(p, "vt_update", loc[p])
                /\ UNCHANGED <<sessions, refreshTokens>>
           ELSE IF loc[p].op \in {"authenticateToken", "deleteSession", "handleLogout"}
                THEN authenticateToken_catch(p, error)
                ELSE /\ Finish(p, AuthErrorOf(p, error.message))
                     /\ UNCHANGED <<sessions, refreshTokens>>
    /\ UNCHANGED <<legacyTokens, issued, now, nextId>>

\* Variant of verifyToken_update that takes the row back into use: it also clears
\* is_marked_for_deletion
verifyToken_update_unmark(p) ==
    /\ pc[p] = "vt_update"
    /\ sessions' = {IF s.token_id = loc[p].tok.tokenId
                    THEN [s EXCEPT !.last_active = now, !.is_marked_for_deletion = FALSE]
                    ELSE s
                      : s \in sessions}
    /\ IF loc[p].op = "deleteSession"
       THEN Goto(p, "inv_delete", [loc[p] EXCEPT !.user = loc[p].tok.userId])
       ELSE IF loc[p].op = "handleLogout"
       THEN Goto(p, "hl_delete", [loc[p] EXCEPT !.user = loc[p].tok.userId,
                                               !.tid = loc[p].tok.tokenId])
       ELSE Finish(p, [NoRes EXCEPT !.op = loc[p].op, !.outcome = "ok", !.user = loc[p].tok.userId,
                                    !.payload = loc[p].tok])
    /\ UNCHANGED <<refreshTokens, legacyTokens, issued, now, nextId>>

\* updateSessionActivity: UPDATE user_sessions_wa SET last_active = NOW() WHERE token_id = $1; return decoded
verifyToken_update(p) ==
    /\ pc[p] = "vt_update"
    /\ sessions' = {IF s.token_id = loc[p].tok.tokenId THEN [s EXCEPT !.last_active = now] ELSE s
                     : s \in sessions}
    /\ IF loc[p].op = "deleteSession"
       THEN Goto(p, "inv_delete", [loc[p] EXCEPT !.user = loc[p].tok.userId])
       ELSE IF loc[p].op = "handleLogout"
       THEN Goto(p, "hl_delete", [loc[p] EXCEPT !.user = loc[p].tok.userId,
                                               !.tid = loc[p].tok.tokenId])
       ELSE Finish(p, [NoRes EXCEPT !.op = loc[p].op, !.outcome = "ok", !.user = loc[p].tok.userId,
                                    !.payload = loc[p].tok])
    /\ UNCHANGED <<refreshTokens, legacyTokens, issued, now, nextId>>

----------------------------------------------------------------------------
\* requireRole(allowedRoles), the middleware that follows authenticateToken;
\* req.user is the payload that verifyToken returned

\* type UserRole, the values of the column user_of_wa.role
UserRole == {"admin", "user", "manager", "readonly"}

\* const userRole = req.user?.role: the claim `role` of the payload, undefined
\* when the payload has no such claim
userRole(payload) == IF "role" \in DOMAIN payload THEN payload.role ELSE "undefined"

\* "next" when the request goes on, else the AuthError the middleware throws
requireRole(payload, allowedRoles) ==
    IF userRole(payload) = "undefined" \/ userRole(payload) \notin allowedRoles
    THEN "Insufficient permissions"
    ELSE "next"

----------------------------------------------------------------------------
\* DELETE /sessions/:tokenId: authenticateToken with the Bearer token, then
\* TokenService.invalidateSession(req.params.tokenId)

deleteSession(p, tok, tokenId) ==
    /\ pc[p] = "idle"
    /\ Call(p, "vt_select", [NoLoc EXCEPT !.op = "deleteSession", !.tok = tok, !.tid = tokenId])
    /\ UNCHANGED <<sessions, refreshTokens, legacyTokens, issued, now, nextId>>

\* DELETE FROM user_sessions_wa WHERE token_id = $1; res.json({message: 'Session terminated'})
invalidateSession(p) ==
    /\ pc[p] = "inv_delete"
    /\ sessions' = {s \in sessions : s.token_id # loc[p].tid}
    /\ Finish(p, [NoRes EXCEPT !.op = loc[p].op, !.outcome = "ok", !.status = 200,
                               !.message = "Session terminated", !.user = loc[p].user,
                               !.sid = loc[p].tid])
    /\ UNCHANGED <<refreshTokens, legacyTokens, issued, now, nextId>>

----------------------------------------------------------------------------
\* TokenService.handleExpiredToken(tokenId) called on its own

handleExpiredToken(p, tokenId) ==
    /\ pc[p] = "idle"
    /\ sessions' = handleExpiredToken_sessions(tokenId)
    /\ refreshTokens' = handleExpiredToken_tokens(tokenId)
    /\ Finish(p, [NoRes EXCEPT !.op = "handleExpiredToken", !.outcome = "ok", !.sid = tokenId])
    /\ UNCHANGED <<legacyTokens, issued, now, nextId>>

----------------------------------------------------------------------------
\* TokenService.cleanupExpiredSessions(), run every minute by the server

cleanupExpiredSessions(p) ==
    /\ pc[p] = "idle"
    /\ Call(p, "ce_delete", [NoLoc EXCEPT !.op = "cleanupExpiredSessions"])
    /\ UNCHANGED <<sessions, refreshTokens, legacyTokens, issued, now, nextId>>

\* BEGIN; DELETE FROM user_sessions_wa WHERE is_marked_for_deletion = true
\*        AND marked_at < NOW() - INTERVAL '5 minutes'
\* The five minutes are shorter than one tick of the clock (the lifetime of an access
\* token): a row qualifies once the clock has moved since it was marked.
cleanupExpiredSessions_delete(p) ==
    /\ pc[p] = "ce_delete"
    /\ sessions' = {s \in sessions : ~(s.is_marked_for_deletion /\ s.marked_at # NULL
                                         /\ s.marked_at < now)}
    /\ Goto(p, "ce_revoke", loc[p])
    /\ UNCHANGED <<refreshTokens, legacyTokens, issued, now, nextId>>

\* Variant of cleanupExpiredSessions_revoke that writes is_revoked anew for every
\* row: true without a session, false with one
cleanupExpiredSessions_revoke_reset(p) ==
    /\ pc[p] = "ce_revoke"
    /\ refreshTokens' = {[r EXCEPT !.is_revoked = (r.token_id \notin {s.token_id : s \in sessions})]
                          : r \in refreshTokens}
    /\ Finish(p, [NoRes EXCEPT !.op = loc[p].op, !.outcome = "ok"])
    /\ UNCHANGED <<sessions, legacyTokens, issued, now, nextId>>

\* UPDATE refresh_tokens_wa SET is_revoked = true WHERE token_id NOT IN
\*        (SELECT token_id FROM user_sessions_wa); COMMIT
cleanupExpiredSessions_revoke(p) ==
    /\ pc[p] = "ce_revoke"
    /\ refreshTokens' = {IF r.token_id \notin {s.token_id : s \in sessions}
                          THEN [r EXCEPT !.is_revoked = TRUE] ELSE r : r \in refreshTokens}
    /\ Finish(p, [NoRes EXCEPT !.op = loc[p].op, !.outcome = "ok"])
    /\ UNCHANGED <<sessions, legacyTokens, issued, now, nextId>>

----------------------------------------------------------------------------
\* POST /logout: authenticateToken with the Bearer token, then handleLogout with
\* req.user = {userId, tokenId}.  TokenService.logout sends BEGIN, its statements and
\* COMMIT through query(), one pool connection per statement: a statement that gets
\* the connection that ran BEGIN ("same") writes inside the open transaction, where
\* only statements on that connection see it until a COMMIT arrives there; a
\* statement on any other connection ("other") commits at once.
\* loc.n1 = 1: the DELETE is pending in the transaction; loc.cnt = 1: the UPDATE is.

handleLogout(p, tok) ==
    /\ pc[p] = "idle"
    /\ Call(p, "vt_select", [NoLoc EXCEPT !.op = "handleLogout", !.tok = tok])
    /\ UNCHANGED <<sessions, refreshTokens, legacyTokens, issued, now, nextId>>

\* user_sessions_wa with the transaction's DELETE applied
handleLogout_sessions(p) ==
    IF loc[p].n1 = 1
    THEN {s \in sessions : ~(s.user_id = loc[p].user /\ s.token_id = loc[p].tid)}
    ELSE sessions

\* refresh_tokens_wa with the transaction's UPDATE applied
handleLogout_tokens(p) ==
    IF loc[p].cnt = 1
    THEN {IF r.user_id = loc[p].user /\ r.token_id = loc[p].tid
          THEN [r EXCEPT !.is_revoked = TRUE] ELSE r : r \in refreshTokens}
    ELSE refreshTokens

\* isSessionValid (logged only); BEGIN; DELETE FROM user_sessions_wa WHERE user_id = $1 AND token_id = $2
handleLogout_delete(p, conn) ==
    /\ pc[p] = "hl_delete"
    /\ IF conn = "same"
       THEN /\ Goto(p, "hl_revoke", [loc[p] EXCEPT !.n1 = 1])
            /\ UNCHANGED sessions
       ELSE /\ sessions' = {s \in sessions : ~(s.user_id = loc[p].user /\ s.token_id = loc[p].tid)}
            /\ Goto(p, "hl_revoke", loc[p])
    /\ UNCHANGED <<refreshTokens, legacyTokens, issued, now, nextId>>

\* UPDATE refresh_tokens_wa SET is_revoked = true WHERE user_id = $1 AND token_id = $2
handleLogout_revoke(p, conn) ==
    /\ pc[p] = "hl_revoke"
    /\ IF conn = "same"
       THEN /\ Goto(p, "hl_verify", [loc[p] EXCEPT !.cnt = 1])
            /\ UNCHANGED refreshTokens
       ELSE /\ refreshTokens' = {IF r.user_id = loc[p].user /\ r.token_id = loc[p].tid
                                 THEN [r EXCEPT !.is_revoked = TRUE] ELSE r : r \in refreshTokens}
            /\ Goto(p, "hl_verify", loc[p])
    /\ UNCHANGED <<sessions, legacyTokens, issued, now, nextId>>

\* SELECT is_revoked FROM refresh_tokens_wa WHERE token_id = $1; unless
\* rows[0]?.is_revoked: throw, ROLLBACK, and the catch block of handleLogout answers
\* 500.  What was pending in the transaction is then committed or dropped, as the
\* ROLLBACK and the COMMITs of later requests reach its connection or not.
handleLogout_verify(p, conn, landed) ==
    /\ pc[p] = "hl_verify"
    /\ IF \E r \in (IF conn = "same" THEN handleLogout_tokens(p) ELSE refreshTokens) :
              r.token_id = loc[p].tid /\ r.is_revoked
       THEN /\ Goto(p, "hl_commit", loc[p])
            /\ UNCHANGED <<sessions, refreshTokens>>
       ELSE /\ sessions' = IF landed THEN handleLogout_sessions(p) ELSE sessions
            /\ refreshTokens' = IF landed THEN handleLogout_tokens(p) ELSE refreshTokens
            /\ Finish(p, [NoRes EXCEPT !.op = loc[p].op, !.outcome = "Error", !.status = 500,
                                       !.code = "INTERNAL_ERROR", !.message = "Failed to logout",
                                       !.user = loc[p].user, !.sid = loc[p].tid])
    /\ UNCHANGED <<legacyTokens, issued, now, nextId>>

\* COMMIT
handleLogout_commit(p, conn) ==
    /\ pc[p] = "hl_commit"
    /\ IF conn = "same"
       THEN /\ sessions' = handleLogout_sessions(p)
            /\ refreshTokens' = handleLogout_tokens(p)
            /\ Goto(p, "hl_check", [loc[p] EXCEPT !.n1 = 0, !.cnt = 0])
       ELSE /\ Goto(p, "hl_check", loc[p])
            /\ UNCHANGED <<sessions, refreshTokens>>
    /\ UNCHANGED <<legacyTokens, issued, now, nextId>>

\* Promise.all([isSessionValid(tokenId), isRefreshTokenValid(tokenId)]): the second
\* hands a token id to jwt.verify and is false; Logger.error when the session is
\* still there (res.count = 1); res.status(200).json({success: true, ...})
handleLogout_check(p, conn, landed) ==
    /\ pc[p] = "hl_check"
    /\ sessions' = IF landed THEN handleLogout_sessions(p) ELSE sessions
    /\ refreshTokens' = IF landed THEN handleLogout_tokens(p) ELSE refreshTokens
    /\ Finish(p, [NoRes EXCEPT !.op = loc[p].op, !.outcome = "ok", !.status = 200,
                               !.message = "Logged out successfully",
                               !.user = loc[p].user, !.sid = loc[p].tid,
                               !.count = IF \E s \in (IF conn = "same" THEN handleLogout_sessions(p)
                                                                      ELSE sessions) :
                                                s.token_id = loc[p].tid
                                         THEN 1 ELSE 0])
    /\ UNCHANGED <<legacyTokens, issued, now, nextId>>

----------------------------------------------------------------------------
\* Next-state relations

Credentials == {"ok", "unknown", "inactive", "badpw"}
SessionIds == {SessionIdOf(n) : n \in 1 .. MaxIds}

\* a request that may insert a session arrives at process p
BeginCreate(p) ==
    \/ \E u \in Users, cred \in Credentials : AuthService_login(p, u, cred)
    \/ \E u \in Users, cred \in Credentials : authenticateUser(p, u, cred)
    \/ \E u \in Users, cred \in Credentials : login(p, u, cred)
    \/ \E u \in Users : generateTokens(p, u)
    \/ \E tok \in Presentable : rotateTokens(p, tok)
    \/ \E tok \in Presentable : AuthService_refreshToken(p, tok)

\* a request that inserts no session arrives at process p
BeginOther(p) ==
    \/ \E tok \in Presentable : verifyToken(p, tok)
    \/ \E u \in Users, r \in issued : TokenService_logout(p, u, r.sessionId)
    \/ \E u \in Users, sid \in SessionIds : AuthService_logout(p, sid, u)
    \/ \E u \in Users, sid \in SessionIds : markSessionForDeletion(p, sid, u)
    \/ \E u \in Users, sid \in SessionIds : terminatePreLoginSession(p, u, sid)
    \/ cleanup(p)

\* process p runs its next statement
Step(p) ==
    \/ AuthService_login_count(p)
    \/ authenticateUser_count(p)
    \/ enforceSessionLimit_count(p)
    \/ enforceSessionLimit_evict(p)
    \/ createSession_insert(p)
    \/ generateTokens_store(p)
    \/ AuthService_refreshToken_valid(p)
    \/ rotateTokens_begin(p)
    \/ rotateTokens_valid(p)
    \/ rotateTokens_session(p)
    \/ rotateTokens_revoke(p)
    \/ verifyToken_select(p)
    \/ verifyToken_update(p)
    \/ TokenService_logout_delete(p)
    \/ TokenService_logout_revoke(p)
    \/ TokenService_logout_verify(p)
    \/ AuthService_logout_select(p)
    \/ AuthService_logout_mark(p)
    \/ AuthService_logout_revoke(p)
    \/ terminatePreLoginSession_select(p)
    \/ terminatePreLoginSession_deleteTokens(p)
    \/ terminatePreLoginSession_deleteSession(p)
    \/ terminatePreLoginSession_count(p)
    \/ cleanup_marked(p)
    \/ cleanup_expire(p)
    \/ cleanup_orphans(p)

\* calls that do not overlap: a call starts only when no other is in flight.
\* The clock stands still, so no token expires in this specification.
Next ==
    \/ AllIdle /\ nextId <= SeqIds /\ BeginCreate(1)
    \/ AllIdle /\ BeginOther(1)
    \/ Step(1)

Spec == Init /\ [][Next]_vars

\* Token lifetimes: logins, rotations, verifications, logouts and cleanup passes
\* that do not overlap, with the clock advancing; at most TimedIds sessions are created
TimedBegin(p) ==
    \/ nextId <= TimedIds /\ \E u \in Users : AuthService_login(p, u, "ok")
    \/ nextId <= TimedIds /\ \E tok \in Presentable : rotateTokens(p, tok)
    \/ nextId <= TimedIds /\ \E tok \in Presentable : AuthService_refreshToken(p, tok)
    \/ \E tok \in Presentable : verifyToken(p, tok)
    \/ \E tok \in Presentable : authenticateToken(p, tok)
    \/ \E u \in Users, r \in issued : TokenService_logout(p, u, r.sessionId)
    \/ cleanup(p)

TimedStep(p) ==
    \/ AuthService_login_count(p)
    \/ enforceSessionLimit_count(p)
    \/ enforceSessionLimit_evict(p)
    \/ createSession_insert(p)
    \/ generateTokens_store(p)
    \/ AuthService_refreshToken_valid(p)
    \/ rotateTokens_begin(p)
    \/ rotateTokens_valid(p)
    \/ rotateTokens_session(p)
    \/ rotateTokens_revoke(p)
    \/ verifyToken_select(p)
    \/ verifyToken_update(p)
    \/ TokenService_logout_delete(p)
    \/ TokenService_logout_revoke(p)
    \/ TokenService_logout_verify(p)
    \/ cleanup_marked(p)
    \/ cleanup_expire(p)
    \/ cleanup_orphans(p)

TimedNext ==
    \/ AllIdle /\ TimedBegin(1)
    \/ TimedStep(1)
    \/ Tick

SpecTimed == Init /\ [][TimedNext]_vars

\* Logouts and refreshes under a running clock: one request at a time; logins, both
\* logouts and both refresh entry points, and the clock runs past the tokens' expiry.
LogoutBegin(p) ==
    \/ nextId <= LogoutIds /\ \E u \in Users : AuthService_login(p, u, "ok")
    \/ nextId <= LogoutIds /\ \E r \in issued : rotateTokens(p, r.refreshToken)
    \/ nextId <= LogoutIds /\ \E r \in issued : AuthService_refreshToken(p, r.refreshToken)
    \/ \E u \in Users, r \in issued : TokenService_logout(p, u, r.sessionId)
    \/ \E u \in Users, sid \in SessionIds : AuthService_logout(p, sid, u)

LogoutStep(p) ==
    \/ AuthService_login_count(p)
    \/ enforceSessionLimit_count(p)
    \/ enforceSessionLimit_evict(p)
    \/ createSession_insert(p)
    \/ generateTokens_store(p)
    \/ AuthService_refreshToken_valid(p)
    \/ rotateTokens_begin(p)
    \/ rotateTokens_valid(p)
    \/ rotateTokens_session(p)
    \/ rotateTokens_revoke(p)
    \/ TokenService_logout_delete(p)
    \/ TokenService_logout_revoke(p)
    \/ TokenService_logout_verify(p)
    \/ AuthService_logout_select(p)
    \/ AuthService_logout_mark(p)
    \/ AuthService_logout_revoke(p)

LogoutNext ==
    \/ AllIdle /\ LogoutBegin(1)
    \/ LogoutStep(1)
    \/ Tick

SpecLogout == Init /\ [][LogoutNext]_vars

\* Terminations with two users: one request at a time, the clock stands still; both
\* users get sessions, and each termination entry point is called on behalf of either
\* user with the id of any session.
OwnerUsers == 1 .. NumOwners

OwnerBegin(p) ==
    \/ nextId <= OwnerIds /\ \E u \in OwnerUsers : generateTokens(p, u)
    \/ \E tok \in Presentable, r \in issued : deleteSession(p, tok, r.sessionId)
    \/ \E u \in OwnerUsers, s \in sessions : markSessionForDeletion(p, s.id, u)
    \/ \E u \in OwnerUsers, sid \in SessionIds : terminatePreLoginSession(p, u, sid)

OwnerStep(p) ==
    \/ enforceSessionLimit_count(p)
    \/ enforceSessionLimit_evict(p)
    \/ createSession_insert(p)
    \/ generateTokens_store(p)
    \/ verifyToken_select(p)
    \/ verifyToken_update(p)
    \/ invalidateSession(p)
    \/ terminatePreLoginSession_select(p)
    \/ terminatePreLoginSession_deleteTokens(p)
    \/ terminatePreLoginSession_deleteSession(p)
    \/ terminatePreLoginSession_count(p)

OwnerNext ==
    \/ AllIdle /\ OwnerBegin(1)
    \/ OwnerStep(1)

SpecOwner == Init /\ [][OwnerNext]_vars

\* Session listings under a running clock: one request at a time; logins,
\* verifications (which move last_active), markings and listings.
ListBegin(p) ==
    \/ nextId <= ListIds /\ \E u \in Users : AuthService_login(p, u, "ok")
    \/ \E r \in issued : verifyToken(p, r.token)
    \/ \E u \in Users, s \in sessions : markSessionForDeletion(p, s.id, u)
    \/ \E u \in Users : getUserSessions(p, u)

ListStep(p) ==
    \/ AuthService_login_count(p)
    \/ enforceSessionLimit_count(p)
    \/ enforceSessionLimit_evict(p)
    \/ createSession_insert(p)
    \/ generateTokens_store(p)
    \/ verifyToken_select(p)
    \/ verifyToken_update(p)

ListNext ==
    \/ AllIdle /\ ListBegin(1)
    \/ ListStep(1)
    \/ Tick

SpecList == Init /\ [][ListNext]_vars

\* Racing logins: logins of two processes interleave statement by statement;
\* terminations and cleanup passes run while nothing else is in flight.
\* The clock stands still.
RaceBegin(p) ==
    \/ /\ \A q \in Procs : pc[q] = "idle" \/ loc[q].ret = "login"
       /\ \E u \in Users : AuthService_login(p, u, "ok")
    \/ p = 1 /\ AllIdle /\ \E u \in Users, sid \in SessionIds : markSessionForDeletion(p, sid, u)
    \/ p = 1 /\ AllIdle /\ \E u \in Users, sid \in SessionIds : terminatePreLoginSession(p, u, sid)
    \/ p = 1 /\ AllIdle /\ cleanup(p)

RaceStep(p) ==
    \/ AuthService_login_count(p)
    \/ enforceSessionLimit_count(p)
    \/ enforceSessionLimit_evict(p)
    \/ createSession_insert(p)
    \/ generateTokens_store(p)
    \/ terminatePreLoginSession_select(p)
    \/ terminatePreLoginSession_deleteTokens(p)
    \/ terminatePreLoginSession_deleteSession(p)
    \/ terminatePreLoginSession_count(p)
    \/ cleanup_marked(p)
    \/ cleanup_expire(p)
    \/ cleanup_orphans(p)

RaceNext == \E p \in Procs : RaceBegin(p) \/ RaceStep(p)

SpecRace == Init /\ [][RaceNext]_vars

\* Racing rotations: logins run alone, rotations of two processes interleave
\* statement by statement.  The clock stands still.
RotateBegin(p) ==
    \/ p = 1 /\ AllIdle /\ \E u \in Users : AuthService_login(p, u, "ok")
    \/ \E r \in issued : rotateTokens(p, r.refreshToken)

RotateStep(p) ==
    \/ AuthService_login_count(p)
    \/ enforceSessionLimit_count(p)
    \/ enforceSessionLimit_evict(p)
    \/ createSession_insert(p)
    \/ generateTokens_store(p)
    \/ rotateTokens_begin(p)
    \/ rotateTokens_valid(p)
    \/ rotateTokens_session(p)
    \/ rotateTokens_revoke(p)

RotateNext == \E p \in Procs : RotateBegin(p) \/ RotateStep(p)

SpecRotate == Init /\ [][RotateNext]_vars

\* the clock advances, up to CleanTime: far enough for a refresh token row to be
\* past its expires_at
CleanTick ==
    /\ now < CleanTime
    /\ now' = now + 1
    /\ UNCHANGED <<sessions, refreshTokens, legacyTokens, issued, nextId, pc, loc, res>>

\* Cleanup passes: logins, rotations, markings and cleanup passes that do not
\* overlap, with the clock advancing; at most CleanIds sessions are created
CleanBegin(p) ==
    \/ nextId <= CleanIds /\ \E u \in Users : AuthService_login(p, u, "ok")
    \/ nextId <= CleanIds /\ \E r \in issued : rotateTokens(p, r.refreshToken)
    \/ \E u \in Users, sid \in SessionIds : markSessionForDeletion(p, sid, u)
    \/ cleanup(p)

CleanStep(p) ==
    \/ AuthService_login_count(p)
    \/ enforceSessionLimit_count(p)
    \/ enforceSessionLimit_evict(p)
    \/ createSession_insert(p)
    \/ generateTokens_store(p)
    \/ rotateTokens_begin(p)
    \/ rotateTokens_valid(p)
    \/ rotateTokens_session(p)
    \/ rotateTokens_revoke(p)
    \/ cleanup_marked(p)
    \/ cleanup_expire(p)
    \/ cleanup_orphans(p)

CleanNext ==
    \/ AllIdle /\ CleanBegin(1)
    \/ CleanStep(1)
    \/ CleanTick

SpecClean == Init /\ [][CleanNext]_vars

\* Logout requests: one request at a time under a running clock; logins and
\* POST /logout with any token a client can present.
HandlerNext ==
    \/ AllIdle /\ nextId <= HandlerIds /\ \E u \in Users : AuthService_login(1, u, "ok")
    \/ AllIdle /\ \E tok \in Presentable : handleLogout(1, tok)
    \/ AuthService_login_count(1)
    \/ enforceSessionLimit_count(1)
    \/ createSession_insert(1)
    \/ generateTokens_store(1)
    \/ verifyToken_select(1)
    \/ verifyToken_update(1)
    \/ \E conn \in Connections : handleLogout_delete(1, conn)
    \/ \E conn \in Connections : handleLogout_revoke(1, conn)
    \/ \E conn \in Connections, landed \in BOOLEAN : handleLogout_verify(1, conn, landed)
    \/ \E conn \in Connections : handleLogout_commit(1, conn)
    \/ \E conn \in Connections, landed \in BOOLEAN : handleLogout_check(1, conn, landed)
    \/ Tick

SpecHandler == Init /\ [][HandlerNext]_vars

\* Every operation that writes a session row or a refresh token row, one request
\* at a time, with the clock advancing between the requests.
OneWayNext ==
    \/ AllIdle /\ nextId <= OneWayIds /\ \E u \in Users : AuthService_login(1, u, "ok")
    \/ AllIdle /\ nextId <= OneWayIds /\ \E r \in issued : rotateTokens(1, r.refreshToken)
    \/ AllIdle /\ \E r \in issued : verifyToken(1, r.token)
    \/ AllIdle /\ \E r \in issued : handleExpiredToken(1, r.sessionId)
    \/ AllIdle /\ \E u \in Users, r \in issued : TokenService_logout(1, u, r.sessionId)
    \/ AllIdle /\ \E u \in Users, s \in sessions : AuthService_logout(1, s.id, u)
    \/ AllIdle /\ \E u \in Users, s \in sessions : markSessionForDeletion(1, s.id, u)
    \/ AllIdle /\ \E u \in Users, s \in sessions : terminatePreLoginSession(1, u, s.id)
    \/ AllIdle /\ cleanup(1)
    \/ AllIdle /\ cleanupExpiredSessions(1)
    \/ AllIdle /\ CleanTick
    \/ AuthService_login_count(1)
    \/ enforceSessionLimit_count(1)
    \/ createSession_insert(1)
    \/ generateTokens_store(1)
    \/ rotateTokens_begin(1)
    \/ rotateTokens_valid(1)
    \/ rotateTokens_session(1)
    \/ rotateTokens_revoke(1)
    \/ verifyToken_select(1)
    \/ verifyToken_update(1)
    \/ TokenService_logout_delete(1)
    \/ TokenService_logout_revoke(1)
    \/ TokenService_logout_verify(1)
    \/ AuthService_logout_select(1)
    \/ AuthService_logout_mark(1)
    \/ AuthService_logout_revoke(1)
    \/ terminatePreLoginSession_select(1)
    \/ terminatePreLoginSession_deleteTokens(1)
    \/ terminatePreLoginSession_deleteSession(1)
    \/ terminatePreLoginSession_count(1)
    \/ cleanup_marked(1)
    \/ cleanup_expire(1)
    \/ cleanup_orphans(1)
    \/ cleanupExpiredSessions_delete(1)
    \/ cleanupExpiredSessions_revoke(1)

SpecOneWay == Init /\ [][OneWayNext]_vars

\* Racing terminations: logins run alone; termination requests of two processes
\* interleave statement by statement.  The clock stands still.
TerminateNext ==
    \/ AllIdle /\ nextId <= TerminateIds /\ \E u \in Users : AuthService_login(1, u, "ok")
    \/ AuthService_login_count(1)
    \/ enforceSessionLimit_count(1)
    \/ createSession_insert(1)
    \/ generateTokens_store(1)
    \/ \E p \in Procs :
          \/ /\ pc[p] = "idle"
             /\ \A q \in Procs : pc[q] = "idle" \/ loc[q].op = "terminatePreLoginSession"
             /\ \E u \in Users, sid \in SessionIds : terminatePreLoginSession(p, u, sid)
          \/ terminatePreLoginSession_select(p)
          \/ terminatePreLoginSession_locked(p)
          \/ terminatePreLoginSession_deleteTokens(p)
          \/ terminatePreLoginSession_deleteSession(p)
          \/ terminatePreLoginSession_count(p)

SpecTerminate == Init /\ [][TerminateNext]_vars

\* Interrupted cleanup passes: one request at a time; logins, rotations and markings
\* fill the tables, the clock runs between the calls, and the cron job's pass may be
\* cut short.
CrashBegin(p) ==
    \/ nextId <= CrashIds /\ \E u \in Users : AuthService_login(p, u, "ok")
    \/ nextId <= CrashIds /\ \E r \in issued : rotateTokens(p, r.refreshToken)
    \/ \E u \in Users, s \in sessions : markSessionForDeletion(p, s.id, u)
    \/ \E conn \in Connections : cleanupJob(p, conn)

CrashStep(p) ==
    \/ AuthService_login_count(p)
    \/ enforceSessionLimit_count(p)
    \/ enforceSessionLimit_evict(p)
    \/ createSession_insert(p)
    \/ generateTokens_store(p)
    \/ rotateTokens_begin(p)
    \/ rotateTokens_valid(p)
    \/ rotateTokens_session(p)
    \/ rotateTokens_revoke(p)
    \/ cleanup_marked(p)
    \/ cleanup_expire(p)
    \/ cleanup_orphans(p)
    \/ cleanup_interrupted(p)

CrashNext ==
    \/ AllIdle /\ CrashBegin(1)
    \/ CrashStep(1)
    \/ AllIdle /\ CleanTick

SpecCrash == Init /\ [][CrashNext]_vars

\* The cleanup job and the health route: process 1 serves logins and markings,
\* process 2 is the cron job of startCleanupJob, whose passes may fail, and
\* GET /health; calls do not overlap.
HealthNext ==
    \/ AllIdle /\ nextId <= HealthIds /\ \E u \in Users : AuthService_login(1, u, "ok")
    \/ AllIdle /\ \E u \in Users, s \in sessions : markSessionForDeletion(1, s.id, u)
    \/ AuthService_login_count(1)
    \/ enforceSessionLimit_count(1)
    \/ createSession_insert(1)
    \/ generateTokens_store(1)
    \/ AllIdle /\ \E conn \in Connections : startCleanupJob_tick(2, conn)
    \/ cleanup_marked(2)
    \/ cleanup_expire(2)
    \/ cleanup_orphans(2)
    \/ cleanup_interrupted(2)
    \/ AllIdle /\ checkHealth(2)

SpecHealth == Init /\ [][HealthNext]_vars

\* Pre-login session switches: one request at a time; logins fill the table, then
\* a switch names any session id, with any credentials, on either kind of connection.
SwitchNext ==
    \/ AllIdle /\ nextId <= SwitchIds /\ \E u \in Users : AuthService_login(1, u, "ok")
    \/ AllIdle /\ nextId <= SwitchIds
          /\ \E u \in Users, cred \in Credentials, sid \in SessionIds, conn \in Connections :
                 preLoginWithSessionTermination(1, u, cred, sid, conn)
    \/ AuthService_login_count(1)
    \/ enforceSessionLimit_count(1)
    \/ enforceSessionLimit_evict(1)
    \/ createSession_insert(1)
    \/ generateTokens_store(1)
    \/ preLoginWithSessionTermination_mark(1)
    \/ createLoginSession(1)
    \/ preLoginWithSessionTermination_commit(1)

SpecSwitch == Init /\ [][SwitchNext]_vars

\* Reaping of marked sessions: process 1 serves logins and markings (any row, any
\* number of times) and runs the passes of the setInterval job
\* (TokenService.cleanupExpiredSessions); process 2 is the cron job of
\* startCleanupJob, whose passes (SessionManager.cleanup) interleave with the
\* requests of process 1.  The clock runs.
ReapNext ==
    \/ pc[1] = "idle" /\ nextId <= ReapIds /\ \E u \in Users : AuthService_login(1, u, "ok")
    \/ \E u \in Users, s \in sessions : markSessionForDeletion(1, s.id, u)
    \/ cleanupExpiredSessions(1)
    \/ AuthService_login_count(1)
    \/ enforceSessionLimit_count(1)
    \/ createSession_insert(1)
    \/ generateTokens_store(1)
    \/ cleanupExpiredSessions_delete(1)
    \/ cleanupExpiredSessions_revoke(1)
    \/ cleanup(2)
    \/ cleanup_marked(2)
    \/ cleanup_expire(2)
    \/ cleanup_orphans(2)
    \/ CleanTick

\* the cron job fires at every full hour and each statement of its pass comes back
SpecReap ==
    /\ Init
    /\ [][ReapNext]_vars
    /\ WF_vars(cleanup(2))
    /\ WF_vars(cleanup_marked(2))
    /\ WF_vars(cleanup_expire(2))
    /\ WF_vars(cleanup_orphans(2))

----------------------------------------------------------------------------
\* Properties

\* C1: at every quiescent point of a run of completed, non-overlapping operations that
\* starts from the empty store, every user has at most MAX_SESSIONS_PER_USER session
\* rows that are not marked for deletion.
C1_SessionCapAtQuiescence ==
    AllIdle => \A u \in Users : getActiveSessions(u) <= MAX_SESSIONS_PER_USER

\* a quiescent point at the cap after more sessions were created than the cap allows
C1_Witness ==
    /\ AllIdle
    /\ nextId > MAX_SESSIONS_PER_USER + 1
    /\ \E u \in Users : getActiveSessions(u) = MAX_SESSIONS_PER_USER

\* C6: a login with valid credentials for a user who has MAX_SESSIONS_PER_USER sessions
\* not marked for deletion ends with MaxSessionsError, and neither the call's first step
\* nor its counting step changes a row of the session or refresh token tables.
C6_LoginAtLimitRejected ==
    [][\A p \in Procs :
          /\ (pc[p] = "idle" /\ pc'[p] = "login_count") => store' = store
          /\ (pc[p] = "login_count" /\ pc'[p] # "login_count"
                /\ getActiveSessions(loc[p].user) >= MAX_SESSIONS_PER_USER)
             => /\ pc'[p] = "idle"
                /\ res'[p].op = "login"
                /\ res'[p].outcome = "MaxSessionsError"
                /\ res'[p].user = loc[p].user
                /\ store' = store]_vars

\* a login has just been refused for a user who is at the cap
C6_Witness ==
    \E p \in Procs :
        /\ pc[p] = "idle"
        /\ res[p].op = "login"
        /\ res[p].outcome = "MaxSessionsError"
        /\ getActiveSessions(res[p].user) = MAX_SESSIONS_PER_USER

\* C7: whenever POST /login refuses a user because of the session cap, the answer is the
\* MAX_SESSIONS_REACHED outcome (status 400) and lists exactly the user's sessions that
\* are not marked for deletion.
C7_CapacityErrorCarriesSessions ==
    \A p \in Procs :
        (res[p].op = "postLogin" /\ res[p].outcome = "refused"
            /\ res[p].count >= MAX_SESSIONS_PER_USER)
        => /\ res[p].status = 400
           /\ res[p].code = "MAX_SESSIONS_REACHED"
           /\ res[p].sessions = ActiveIds(res[p].user)
           /\ Cardinality(res[p].sessions) = res[p].count

C10_IssueVerifyRoundTrip ==
    [][\A p \in Procs :
          /\ (pc[p] = "vt_select" /\ loc[p].n1 = 1 /\ pc'[p] # "vt_select")
             => pc'[p] = "vt_update"
          /\ (pc[p] = "vt_update" /\ loc[p].n1 = 1 /\ pc'[p] # "vt_update")
             => /\ res'[p].op = "verifyToken"
                /\ res'[p].outcome = "ok"
                /\ \E r \in issued, s \in sessions :
                      /\ r.token = loc[p].tok
                      /\ s.token_id = r.sessionId
                      /\ res'[p].payload.tokenId = s.token_id
                      /\ res'[p].payload.userId = s.user_id]_vars

\* a token has been verified right after it was issued
C10_Witness ==
    \E p \in Procs, r \in issued :
        /\ pc[p] = "idle"
        /\ res[p].op = "verifyToken"
        /\ res[p].outcome = "ok"
        /\ res[p].payload = r.token
        /\ res[p].payload.tokenId = r.sessionId

\* C2: of two rotateTokens calls that present the same refresh token and whose
\* statements interleave, at most one returns a new pair.
C2_ConcurrentRotationOnce ==
    \A p, q \in Procs :
        (p # q /\ res[p].op = "rotateTokens" /\ res[p].outcome = "ok"
               /\ res[q].op = "rotateTokens" /\ res[q].outcome = "ok")
        => res[p].payload # res[q].payload

\* refresh tokens handed out so far
IssuedRefresh == {r.refreshToken : r \in issued}

\* refresh_tokens_wa holds a revoked row for this token id
Revoked(tokenId) == \E r \in refreshTokens : r.token_id = tokenId /\ r.is_revoked

\* process p runs a rotateTokens / refreshToken call with an issued refresh token
Rotating(p) ==
    /\ pc[p] # "idle"
    /\ loc[p].op \in {"rotateTokens", "refreshToken"}
    /\ loc[p].tok \in IssuedRefresh

\* C3 as stated: a rotateTokens / refreshToken call that presents the refresh token the
\* preceding call has successfully rotated (time may have passed in between) fails with
\* 'Invalid refresh token'.
C3_StaleRotationInvalid ==
    [][\A p \in Procs :
          (Rotating(p) /\ loc[p].n1 = 1 /\ pc'[p] = "idle")
          => /\ res'[p].outcome = "AuthError"
             /\ res'[p].message = "Invalid refresh token"]_vars

\* C3, amended: once a rotation of a refresh token has returned, that token never
\* rotates again.  In three parts: (1) a rotation that returns leaves the token's row
\* revoked; (2) a revoked row stays, revoked, whatever operation runs; (3) a
\* rotateTokens / refreshToken call that presents an issued refresh token whose row is
\* revoked changes no row, issues nothing and fails, with 'Invalid refresh token', or,
\* when rotateTokens is called directly after the token's own expiry, with
\* 'Failed to rotate tokens'.
C3_RotationAtMostOnce ==
    [][/\ \A p \in Procs :
             (pc[p] = "rot_revoke" /\ pc'[p] = "idle")
             => \E r \in refreshTokens' : r.token_id = loc[p].tok.tokenId /\ r.is_revoked
       /\ \A r \in refreshTokens :
             r.is_revoked
             => /\ r \in refreshTokens'
                /\ \A n \in refreshTokens' : n.token_id = r.token_id => n.is_revoked
       /\ \A p \in Procs :
             (Rotating(p) /\ Revoked(loc[p].tok.tokenId)
                 /\ pc[p] \in {"rf_valid", "rot_begin", "rot_valid"} /\ pc'[p] # pc[p])
             => /\ store' = store
                /\ issued' = issued
                /\ pc'[p] \in {"idle", "rot_valid"}
                /\ pc'[p] = "idle"
                   => /\ res'[p].outcome = "AuthError"
                      /\ \/ res'[p].message = "Invalid refresh token"
                         \/ /\ res'[p].message = "Failed to rotate tokens"
                            /\ loc[p].op = "rotateTokens"
                            /\ now >= loc[p].tok.exp]_vars

\* the token that the preceding call rotated has been presented again and refused
C3_Witness ==
    \E p \in Procs :
        /\ pc[p] = "idle"
        /\ res[p].op \in {"rotateTokens", "refreshToken"}
        /\ res[p].outcome = "AuthError"
        /\ res[p].message = "Invalid refresh token"
        /\ res[p].count = 1
        /\ res[p].payload \in IssuedRefresh
        /\ Revoked(res[p].payload.tokenId)

\* C4: when two logins with valid credentials both find the user with
\* MAX_SESSIONS_PER_USER - 1 sessions not marked for deletion, at most one of them
\* inserts a session row.
C4_ConcurrentLoginsAtEdge ==
    ~\E p, q \in Procs :
        /\ p # q
        /\ pc[p] = "gt_store" /\ pc[q] = "gt_store"
        /\ loc[p].ret = "login" /\ loc[q].ret = "login"
        /\ loc[p].user = loc[q].user
        /\ loc[p].n1 = MAX_SESSIONS_PER_USER - 1
        /\ loc[q].n1 = MAX_SESSIONS_PER_USER - 1

\* C5: when SessionManager.cleanup returns and no request is in flight, every user has
\* at most MAX_SESSIONS_PER_USER sessions not marked for deletion.
C5_CleanupRestoresCap ==
    [][\A p \in Procs :
          (pc[p] = "cl_orphans" /\ pc'[p] = "idle" /\ \A q \in Procs : pc'[q] = "idle")
          => \A u \in Users : Cardinality(ActiveIdsIn(sessions', u)) <= MAX_SESSIONS_PER_USER]_vars

C11_CleanupIdempotent ==
    [][\A p \in Procs :
          (loc[p].op = "cleanup" /\ loc[p].tid = 1 /\ now = loc[p].n2 /\ pc'[p] # pc[p])
          => /\ store' = store
             /\ pc'[p] = "idle"
                => /\ res'[p].outcome = "ok"
                   /\ res'[p].count = 0
                   /\ res'[p].status = 0
                   /\ res'[p].sid = 0]_vars

\* a second pass is at its last statement, in a store that holds a session and a
\* token row that is past its expiry and revoked
C11_Witness ==
    \E p \in Procs :
        /\ pc[p] = "cl_orphans"
        /\ loc[p].tid = 1
        /\ now = loc[p].n2
        /\ sessions # {}
        /\ \E r \in refreshTokens : r.is_revoked /\ r.expires_at < now

\* access tokens handed out so far
IssuedAccess == {r.token : r \in issued}

\* process p is about to verify, for authenticateToken, an issued access token that
\* is past its expiry
VerifyingExpired(p) ==
    /\ pc[p] = "vt_select"
    /\ loc[p].op = "authenticateToken"
    /\ loc[p].tok \in IssuedAccess
    /\ now >= loc[p].tok.exp

\* C12: a correctly signed access token that is past its expiry, presented to
\* authenticateToken, is refused with 'Token expired'.
C12_ExpiredReportedAsExpired ==
    [][\A p \in Procs :
          (VerifyingExpired(p) /\ pc'[p] # pc[p])
          => /\ pc'[p] = "idle"
             /\ res'[p].outcome = "AuthError"
             /\ res'[p].message = "Token expired"]_vars

\* C13: when a correctly signed access token of session S that is past its expiry is
\* presented to authenticateToken, S's row is marked for deletion when the error
\* response is sent.
C13_ExpiredRetiresSession ==
    [][\A p \in Procs :
          (VerifyingExpired(p) /\ pc'[p] = "idle"
              /\ \E s \in sessions : s.token_id = loc[p].tok.tokenId)
          => \E s \in sessions' : s.token_id = loc[p].tok.tokenId /\ s.is_marked_for_deletion]_vars

\* token ids handed out so far
IssuedTokenIds == {r.sessionId : r \in issued}

LogoutReturns(p) ==
    \/ pc[p] = "al_revoke" /\ pc'[p] = "idle"
    \/ pc[p] = "lo_verify" /\ pc'[p] = "idle" /\ res'[p].outcome = "ok"

\* C15 as stated: a successful AuthService.logout or TokenService.logout leaves the
\* session's refresh_tokens_wa row revoked, and a rotateTokens / refreshToken call that
\* presents the refresh token of the session the preceding call logged out (time may
\* have passed in between) fails with 'Invalid refresh token'.
C15_LoggedOutRefreshInvalid ==
    [][\A p \in Procs :
          /\ LogoutReturns(p)
             => \E r \in refreshTokens' : r.token_id = loc[p].tid /\ r.is_revoked
          /\ (Rotating(p) /\ loc[p].n1 \in {2, 3} /\ pc'[p] = "idle")
             => /\ res'[p].outcome = "AuthError"
                /\ res'[p].message = "Invalid refresh token"]_vars

\* C15, amended: a refresh token of a logged-out session is never honoured again.  In
\* three parts: (1) a successful logout of either kind leaves a revoked row, and no
\* unrevoked one, for the session's token id; (2) no statement un-revokes or removes a
\* revoked row; (3) a rotateTokens / refreshToken call that presents the refresh token
\* of the session the preceding call logged out finds the row revoked, and every call
\* that presents a token whose row is revoked fails, with 'Invalid refresh token',
\* or, when rotateTokens is called directly after the token's own expiry, with
\* 'Failed to rotate tokens', and inserts no session and no token row.
C15_LoggedOutRefreshRefused ==
    [][/\ \A p \in Procs :
             LogoutReturns(p)
             => /\ \E r \in refreshTokens' : r.token_id = loc[p].tid /\ r.is_revoked
                /\ \A r \in refreshTokens' : r.token_id = loc[p].tid => r.is_revoked
       /\ \A r \in refreshTokens :
             r.is_revoked => \E n \in refreshTokens' : n.token_id = r.token_id /\ n.is_revoked
       /\ \A p \in Procs :
             (Rotating(p) /\ pc'[p] # pc[p]
                 /\ (loc[p].n1 \in {2, 3} \/ Revoked(loc[p].tok.tokenId)))
             => /\ Revoked(loc[p].tok.tokenId)
                /\ store' = store
                /\ nextId' = nextId
                /\ pc'[p] \in {"idle", "rot_valid"}
                /\ pc'[p] = "idle"
                   => /\ res'[p].outcome = "AuthError"
                      /\ \/ res'[p].message = "Invalid refresh token"
                         \/ /\ res'[p].message = "Failed to rotate tokens"
                            /\ loc[p].op = "rotateTokens"
                            /\ now >= loc[p].tok.exp]_vars

\* AuthService.refreshToken has refused the refresh token of the session that the
\* preceding call, a successful AuthService.logout, logged out
C15_Witness ==
    \E p \in Procs :
        /\ pc[p] = "idle"
        /\ res[p].op = "refreshToken"
        /\ res[p].outcome = "AuthError"
        /\ res[p].message = "Invalid refresh token"
        /\ res[p].count = 3
        /\ res[p].payload \in IssuedRefresh
        /\ Revoked(res[p].payload.tokenId)
        /\ \E s \in sessions : s.token_id = res[p].payload.tokenId /\ s.is_marked_for_deletion

\* C16: verifyToken refuses, with 'Session not found', the unexpired access token of a
\* session that the preceding call (AuthService.logout, or markSessionForDeletion as
\* TokenService.terminateSession runs it) has marked for deletion, although no cleanup
\* pass has run since.
C16_TerminatedSessionRejected ==
    [][\A p \in Procs :
          (/\ pc[p] = "vt_select" /\ pc'[p] # pc[p]
           /\ loc[p].op = "verifyToken"
           /\ loc[p].n1 = 3
           /\ loc[p].tok \in IssuedAccess
           /\ now < loc[p].tok.exp)
          => /\ pc'[p] = "idle"
             /\ res'[p].outcome = "AuthError"
             /\ res'[p].message = "Session not found"]_vars

\* process p runs a logout that repeats, with the same arguments, the successful
\* logout it ran just before
SecondLogout(p) ==
    /\ pc[p] # "idle"
    /\ loc[p].op \in {"TokenService.logout", "AuthService.logout"}
    /\ loc[p].n2 = 1

\* the session rows without their marked_at column
WithoutMarkedAt(rows) == {[s EXCEPT !.marked_at = NULL] : s \in rows}

\* C17 as stated: a logout that directly repeats a successful logout with the same
\* arguments succeeds and changes no row of user_sessions_wa or refresh_tokens_wa.
C17_LogoutIdempotent ==
    [][\A p \in Procs :
          (SecondLogout(p) /\ pc'[p] # pc[p])
          => /\ sessions' = sessions
             /\ refreshTokens' = refreshTokens
             /\ pc'[p] = "idle" => res'[p].outcome = "ok"]_vars

\* C17, amended: a logout that directly repeats a successful logout with the same
\* arguments succeeds and changes no row of refresh_tokens_wa and no column of
\* user_sessions_wa other than marked_at, which AuthService.logout sets to the time of
\* the second call on the session row it was called for; TokenService.logout changes
\* nothing at all.
C17_LogoutIdempotentButMarkedAt ==
    [][\A p \in Procs :
          (SecondLogout(p) /\ pc'[p] # pc[p])
          => /\ refreshTokens' = refreshTokens
             /\ WithoutMarkedAt(sessions') = WithoutMarkedAt(sessions)
             /\ Cardinality(sessions') = Cardinality(sessions)
             /\ \A s \in sessions' \ sessions :
                   /\ loc[p].op = "AuthService.logout"
                   /\ s.id = loc[p].sid /\ s.user_id = loc[p].user
                   /\ s.marked_at = now
             /\ pc'[p] = "idle" => res'[p].outcome = "ok"]_vars

\* a second AuthService.logout in a row has returned after the clock moved on: the
\* session row is still there, marked at the time of the second call
C17_Witness ==
    \E p \in Procs :
        /\ pc[p] = "idle"
        /\ res[p].op = "AuthService.logout"
        /\ res[p].outcome = "ok"
        /\ res[p].count = 1
        /\ \E s \in sessions :
              /\ s.id = res[p].sid /\ s.is_marked_for_deletion
              /\ s.marked_at = now /\ s.marked_at > s.last_active
              /\ Revoked(s.token_id)

\* the session rows that do not belong to user u
RowsOfOthers(rows, u) == {s \in rows : s.user_id # u}

\* C18: no termination entry point called on behalf of a user (the terminateSession
\* controller and markSessionForDeletion, DELETE /sessions/:tokenId,
\* terminatePreLoginSession) deletes or marks a session row of another user.
C18_TerminationOwnershipChecked ==
    [][\A p \in Procs :
          /\ (/\ pc[p] # "idle" /\ pc'[p] # pc[p]
              /\ loc[p].op \in {"deleteSession", "terminatePreLoginSession"}
              /\ pc[p] \in {"inv_delete", "tp_select", "tp_deltok", "tp_delsess", "tp_count"})
             => RowsOfOthers(sessions', loc[p].user) = RowsOfOthers(sessions, loc[p].user)
          /\ (/\ pc[p] = "idle" /\ pc'[p] = "idle"
              /\ res'[p].op = "markSessionForDeletion"
              /\ sessions' # sessions)
             => RowsOfOthers(sessions', res'[p].user) = RowsOfOthers(sessions, res'[p].user)]_vars

\* process p runs a login or another call that issues tokens for a user (AuthService.login,
\* POST /login, or generateTokens called directly as the login controller does)
IssuingFor(p) ==
    /\ pc[p] # "idle"
    /\ loc[p].ret \in {"login", "route", "direct"}

\* C19: no statement of a login or of a direct generateTokens call deletes or marks a
\* session of the same user that was not marked for deletion.
C19_NoEvictionOnLogin ==
    [][\A p \in Procs :
          (IssuingFor(p) /\ pc'[p] # pc[p])
          => \A s \in sessions :
                (s.user_id = loc[p].user /\ ~s.is_marked_for_deletion)
                => \E n \in sessions' : n.id = s.id /\ ~n.is_marked_for_deletion]_vars

\* the refusals of a login with credentials that are not valid
InvalidCredentials == {"Invalid credentials", "Invalid credentials. N attempts remaining."}

\* C20: a login with a wrong password, an unknown username or an inactive account, at
\* any login entry point (AuthService.login, authenticateUser behind POST /login, the
\* login controller), is refused with 'Invalid credentials' and creates no session row,
\* no refresh token row and no token: a call that answers 'Invalid credentials' has
\* written nothing, and a call made with such credentials writes nothing and ends with
\* that answer.
C20_FailedCredentialsIssueNothing ==
    [][\A p \in Procs :
          /\ (/\ pc'[p] = "idle" /\ res'[p] # res[p]
              /\ res'[p].op \in {"login", "postLogin", "loginController"}
              /\ res'[p].message \in InvalidCredentials)
             => /\ pc[p] = "idle"
                /\ store' = store /\ issued' = issued
          /\ (/\ pc[p] # "idle" /\ pc'[p] # pc[p]
              /\ loc[p].cred \in Credentials \ {"ok"})
             => /\ store' = store /\ issued' = issued
                /\ pc'[p] = "idle"
                   => /\ res'[p].outcome \in {"AuthError", "refused"}
                      /\ res'[p].message \in InvalidCredentials]_vars

\* the response of a call without the cause the model recorded for it
Response(r) == [r EXCEPT !.cred = "none"]

\* C21: at each login entry point, two logins of the same user that are both refused
\* because of the credentials (unknown username, wrong password, inactive account) get
\* the same response, whatever the two causes are.
C21_RefusalsIndistinguishable ==
    [][\A p \in Procs :
          (/\ pc[p] = "idle" /\ pc'[p] = "idle"
           /\ res'[p].op \in {"login", "postLogin", "loginController"}
           /\ res[p].op = res'[p].op
           /\ res[p].user = res'[p].user
           /\ res[p].cred \in Credentials \ {"ok"}
           /\ res'[p].cred \in Credentials \ {"ok"})
          => Response(res'[p]) = Response(res[p])]_vars

\* process p returns from getUserSessions in this step
ListingReturns(p) ==
    /\ pc[p] = "idle" /\ pc'[p] = "idle"
    /\ res'[p].op = "getUserSessions"
    /\ res'[p] # res[p]

\* C22: getUserSessions(userId) changes no state and returns, once each and with
\* last_active descending, exactly the session rows of the user that are not marked
\* for deletion; called right after a successful login of a user who has no other
\* session, it returns one entry, whose token_id is the sessionId the login returned.
C22_SessionListing ==
    [][\A p \in Procs :
          ListingReturns(p)
          => LET rows == res'[p].rows
                 u == res'[p].user
             IN  /\ store' = store /\ issued' = issued /\ now' = now /\ nextId' = nextId
                 /\ {rows[i] : i \in 1 .. Len(rows)}
                       = {SessionInfo(s) : s \in {x \in sessions : x.user_id = u
                                                       /\ ~x.is_marked_for_deletion}}
                 /\ Len(rows) = getActiveSessions(u)
                 /\ \A i, j \in 1 .. Len(rows) : i < j => rows[i].last_active >= rows[j].last_active
                 /\ (/\ res[p].op = "login" /\ res[p].outcome = "ok" /\ res[p].user = u
                     /\ Cardinality(SessionsOf(u)) = 1)
                    => /\ Len(rows) = 1
                       /\ rows[1].token_id = res[p].pair.sessionId]_vars

\* a listing has returned two sessions with different last_active while the user also
\* has a session that is marked for deletion
C22_Witness ==
    \E p \in Procs :
        /\ pc[p] = "idle"
        /\ res[p].op = "getUserSessions"
        /\ Len(res[p].rows) = 2
        /\ res[p].rows[1].last_active > res[p].rows[2].last_active
        /\ \E s \in SessionsOf(res[p].user) : s.is_marked_for_deletion

\* the session rows that are marked for deletion
MarkedRows(rows) == {s \in rows : s.is_marked_for_deletion}

\* C23: a cleanup pass that no other call overlaps deletes every session row that was
\* marked for deletion when it began, and the markedSessions it returns is the number
\* of marked rows it deleted.  Statement by statement: the first statement deletes
\* exactly the marked rows and counts them; the later statements meet no marked row,
\* so what they delete is unmarked, and the count is returned as it was taken.
C23_CleanupPurgesMarked ==
    [][\A p \in Procs :
          /\ (pc[p] = "cl_marked" /\ pc'[p] # pc[p])
             => /\ sessions \ sessions' = MarkedRows(sessions)
                /\ sessions' \subseteq sessions
                /\ loc'[p].cnt = Cardinality(MarkedRows(sessions))
          /\ (pc[p] \in {"cl_expire", "cl_orphans"} /\ pc'[p] # pc[p])
             => /\ MarkedRows(sessions) = {}
                /\ sessions' \subseteq sessions
                /\ pc'[p] # "idle" => loc'[p].cnt = loc[p].cnt
                /\ pc'[p] = "idle" => /\ res'[p].outcome = "ok"
                                      /\ res'[p].count = loc[p].cnt]_vars

\* a cleanup pass has returned after deleting a marked session (first statement) and
\* a session whose refresh token was revoked (third statement)
C23_Witness ==
    \E p \in Procs :
        /\ pc[p] = "idle"
        /\ res[p].op = "cleanup"
        /\ res[p].outcome = "ok"
        /\ res[p].count >= 1
        /\ res[p].sid >= 1
        /\ MarkedRows(sessions) = {}

\* the tables that a whole cleanup pass at time t leaves when it starts from the
\* session rows S and the token rows T
AfterWholePass(S, T, t) ==
    LET T2 == {IF r.expires_at < t /\ ~r.is_revoked THEN [r EXCEPT !.is_revoked = TRUE] ELSE r
                 : r \in T}
        dead == {r.token_id : r \in {x \in T2 : x.is_revoked \/ x.expires_at < t}}
    IN  <<{s \in S : ~s.is_marked_for_deletion /\ s.token_id \notin dead}, T2>>

\* C24: when a cleanup pass is cut short after its first or second statement, the
\* tables user_sessions_wa and refresh_tokens_wa are afterwards either as they were
\* before the pass or as the whole pass would have left them.
C24_CleanupAllOrNone ==
    [][\A p \in Procs :
          (/\ pc[p] \in {"cl_expire", "cl_orphans"}
           /\ loc[p].undo.conn \in Connections
           /\ pc'[p] = "idle" /\ res'[p].outcome = "Error")
          => \/ <<sessions', refreshTokens'>> = <<loc[p].undo.sessions, loc[p].undo.refreshTokens>>
             \/ <<sessions', refreshTokens'>>
                   = AfterWholePass(loc[p].undo.sessions, loc[p].undo.refreshTokens, now)]_vars

\* C25: a logout request that passed authentication is answered 200 with success,
\* whether or not the verification after its statements found the session deleted
\* and the refresh token revoked.
C25_LogoutNeverFails ==
    [][\A p \in Procs :
          (pc[p] \in {"hl_verify", "hl_check"} /\ pc'[p] = "idle")
          => res'[p].outcome = "ok" /\ res'[p].status = 200]_vars

\* C26: a session row that is marked for deletion stays marked for as long as it
\* exists: no step of any operation leaves a row with the same id unmarked.
C26_SoftDeleteOneWay ==
    [][\A s \in sessions, t \in sessions' :
          (s.is_marked_for_deletion /\ t.id = s.id) => t.is_marked_for_deletion]_vars

\* a verification has just written the session row of its token (last_active), the
\* row was marked before, and it is still marked
C26_Witness ==
    \E p \in Procs, s \in sessions :
        /\ pc[p] = "idle"
        /\ res[p].op = "verifyToken"
        /\ res[p].outcome = "ok"
        /\ s.token_id = res[p].payload.tokenId
        /\ s.is_marked_for_deletion

\* C27: a refresh token row that is revoked stays revoked: no step of any operation
\* leaves a row of the same token unrevoked.
C27_RevocationOneWay ==
    [][\A r \in refreshTokens, t \in refreshTokens' :
          (r.is_revoked /\ t.token_id = r.token_id) => t.is_revoked]_vars

\* the minute job has finished while a revoked refresh token row still has its
\* session row, and the row is still revoked
C27_Witness ==
    \E p \in Procs, r \in refreshTokens, s \in sessions :
        /\ pc[p] = "idle"
        /\ res[p].op = "cleanupExpiredSessions"
        /\ r.is_revoked
        /\ s.token_id = r.token_id

C31_HealthReflectsFailures ==
    \A p \in Procs :
        res[p].op = "checkHealth" /\ res[p].count > 5 => res[p].outcome = "unhealthy"

\* C32: every successful verifyToken of a token of session S sets S's last_active
\* to the current time and raises S's activity_count by exactly one
C32_VerifiedRequestsCounted ==
    [][\A p \in Procs :
          (pc[p] = "vt_update" /\ loc[p].op = "verifyToken" /\ pc'[p] = "idle"
             /\ res'[p].outcome = "ok")
          => \A s \in sessions :
                 s.token_id = loc[p].tok.tokenId
                 => \E t \in sessions' : /\ t.id = s.id
                                          /\ t.last_active = now
                                          /\ t.activity_count = s.activity_count + 1]_vars

\* C33: when preLoginWithSessionTermination fails after its first statement, the
\* row of the session it was to terminate is as it was before the call
C33_FailedSwitchChangesNothing ==
    [][\A p \in Procs :
          (pc[p] \in {"pl_login", "pl_commit"} /\ pc'[p] = "idle" /\ res'[p].outcome # "ok")
          => {s \in sessions' : s.id = loc[p].sid} = {s \in loc[p].snap : s.id = loc[p].sid}]_vars

C35_CleanupLeavesNoDeadToken ==
    [][\A p \in Procs :
          (pc[p] = "cl_orphans" /\ pc'[p] = "idle" /\ res'[p].outcome = "ok" /\ loc[p].n2 = now)
          => \A s \in sessions' : \A r \in refreshTokens' :
                 r.token_id = s.token_id => ~r.is_revoked /\ r.expires_at > now]_vars

\* C36: whenever no call is in flight, every session row has exactly one refresh
\* token row with its token_id, that row has the session's user_id, and no two
\* session rows share a token_id
C36_SessionTokenOneToOne ==
    AllIdle =>
        /\ \A s \in sessions :
               /\ Cardinality({r \in refreshTokens : r.token_id = s.token_id}) = 1
               /\ \A r \in refreshTokens : r.token_id = s.token_id => r.user_id = s.user_id
        /\ \A s, t \in sessions : s.token_id = t.token_id => s = t

\* after a rotation: nothing in flight, the rotated session is still there on its
\* revoked refresh row, next to the session the rotation created
C36_Witness ==
    /\ AllIdle
    /\ \E p \in Procs : res[p].op = "rotateTokens" /\ res[p].outcome = "ok"
    /\ \E s, t \in sessions :
           /\ s # t
           /\ \E r \in refreshTokens : r.token_id = s.token_id /\ r.is_revoked
           /\ \E r \in refreshTokens : r.token_id = t.token_id /\ ~r.is_revoked

\* C37: a session row that is marked for deletion is eventually deleted, whatever
\* logins, markings of the same row and passes of the other job interleave
C37_MarkedEventuallyReaped ==
    \A sid \in SessionIds :
        (\E s \in sessions : s.id = sid /\ s.is_marked_for_deletion)
        ~> (~\E s \in sessions : s.id = sid)

\* the session that process 1 marked last is gone after a pass of the cron job
\* that deleted marked rows
C37_Witness ==
    /\ res[1].op = "markSessionForDeletion"
    /\ res[1].outcome = "ok"
    /\ res[2].op = "cleanup"
    /\ res[2].outcome = "ok"
    /\ res[2].count >= 1
    /\ ~\E s \in sessions : s.id = res[1].sid

\* C38: the payload that verifyToken returns for an issued access token carries the
\* owner's role: whichever role the owner has, requireRole(allowedRoles) lets the
\* request pass exactly when that role is among allowedRoles
C38_IssuedTokensCarryRole ==
    \A p \in Procs :
        (res[p].op = "verifyToken" /\ res[p].outcome = "ok")
        => \A role \in UserRole, allowedRoles \in SUBSET UserRole :
               (requireRole(res[p].payload, allowedRoles) = "next") <=> (role \in allowedRoles)

\* C39: when rotateTokens returns a new pair, the user's session rows are, by id,
\* the rows the call found, and none of them has been marked or unmarked
C39_RotationKeepsSessionSet ==
    [][\A p \in Procs :
          (pc[p] = "rot_revoke" /\ loc[p].op = "rotateTokens" /\ pc'[p] = "idle"
             /\ res'[p].outcome = "ok")
          => /\ {s.id : s \in {x \in sessions' : x.user_id = loc[p].user}}
                   = {s.id : s \in {x \in loc[p].snap : x.user_id = loc[p].user}}
             /\ \A s \in loc[p].snap : \A t \in sessions' :
                    t.id = s.id => t.is_marked_for_deletion = s.is_marked_for_deletion]_vars

\* C40: while the session of a refresh token is marked for deletion (by
\* markSessionForDeletion, as TokenService.terminateSession runs it), no statement
\* of a rotateTokens / refreshToken call that presents the token inserts or
\* changes a session or refresh token row, and the call does not succeed
C40_TerminatedSessionCannotRenew ==
    [][\A p \in Procs :
          (/\ Rotating(p) /\ pc'[p] # pc[p]
           /\ loc[p].tok \in IssuedRefresh
           /\ \E s \in sessions : s.token_id = loc[p].tok.tokenId /\ s.is_marked_for_deletion)
          => /\ sessions' = sessions
             /\ refreshTokens' = refreshTokens
             /\ pc'[p] = "idle" => res'[p].outcome # "ok"]_vars

====
